---- MODULE Spec2Model ----
(***************************************************************************)
(* Model of the inline Python task updater                                 *)
(* (pkg/definitions/updaters/python/src): the Declaration Locator          *)
(* (parse.py), the offset Model (location.py), the Patch Applier           *)
(* (utils.py) and the update / can_update commands (update.py, main.py).   *)
(*                                                                         *)
(* Text is a sequence of characters; a character is a one-element string,  *)
(* except the stand-ins "U2", "U3", "U4" for characters of 2, 3 and 4      *)
(* encoded bytes.  Identifiers and slugs are sequences of characters.      *)
(***************************************************************************)
EXTENDS Integers, Sequences, FiniteSets, TLC

\* ------------------------------------------------------------------------
\* Bounds of the model
\* ------------------------------------------------------------------------
MaxUnits == 2        \* top-level declarations per generated file
MaxComments == 2     \* leading comment lines per generated file
MaxDepth == 2        \* nesting of lists and mappings in an expression
MaxPatches == 2      \* patches handed to apply_updates
MaxTextLen == 3      \* length of the text handed to apply_updates
MaxParams == 3       \* parameters of a serialized definition
MaxLineLen == 2      \* characters of a line handed to Location.from_node
MaxSchedules == 2    \* schedules of a serialized definition

\* ------------------------------------------------------------------------
\* Characters and generic sequence helpers
\* ------------------------------------------------------------------------
NL == "\n"
None == <<>>          \* None of an optional text, name or list

ByteLen(c) == IF c = "U2" THEN 2 ELSE IF c = "U3" THEN 3 ELSE IF c = "U4" THEN 4 ELSE 1

Min(a, b) == IF a <= b THEN a ELSE b
Max(a, b) == IF a >= b THEN a ELSE b

RECURSIVE Concat(_)
Concat(ss) == IF ss = <<>> THEN <<>> ELSE Head(ss) \o Concat(Tail(ss))

\* sep.join(ss)
RECURSIVE Join(_, _)
Join(ss, sep) ==
  IF ss = <<>> THEN <<>>
  ELSE IF Len(ss) = 1 THEN ss[1]
  ELSE ss[1] \o sep \o Join(Tail(ss), sep)

\* s[a:b] of Python, 0-based and half-open, for 0 <= a
Slice(s, a, b) == SubSeq(s, a + 1, Min(b, Len(s)))

MinOf(S) == CHOOSE x \in S : \A y \in S : x <= y
MaxOf(S) == CHOOSE x \in S : \A y \in S : x >= y

\* content.split("\n"): line k lies between the (k-1)-th and the k-th line break
Breaks(s) == {i \in 1..Len(s) : s[i] = NL}
Split(s) ==
  LET br == Breaks(s)
      n == Cardinality(br)
      at == [k \in 0..(n + 1) |->
               IF k = 0 THEN 0
               ELSE IF k > n THEN Len(s) + 1
               ELSE CHOOSE i \in br : Cardinality({j \in br : j < i}) = k - 1]
  IN [k \in 1..(n + 1) |-> SubSeq(s, at[k - 1] + 1, at[k] - 1)]

\* number of encoded bytes of a text
Bytes(s) ==
  Len(s) + Cardinality({i \in 1..Len(s) : s[i] = "U2"})
         + 2 * Cardinality({i \in 1..Len(s) : s[i] = "U3"})
         + 3 * Cardinality({i \in 1..Len(s) : s[i] = "U4"})

\* s.index(sub): the 0-based position of the first occurrence, -1 when there is none
Index(s, sub) ==
  LET hits == {i \in 0..(Len(s) - Len(sub)) : SubSeq(s, i + 1, i + Len(sub)) = sub}
  IN IF hits = {} THEN -1 ELSE MinOf(hits)

\* ------------------------------------------------------------------------
\* Source text fragments
\* ------------------------------------------------------------------------
T_def == <<"d", "e", "f", " ">>
T_async_def == <<"a", "s", "y", "n", "c", " ", "d", "e", "f", " ">>
T_class == <<"c", "l", "a", "s", "s", " ", "C", ":">>
T_pass == <<"p", "a", "s", "s">>
T_import == <<"i", "m", "p", "o", "r", "t", " ">>
T_from == <<"f", "r", "o", "m", " ">>
T_airplane == <<"a", "i", "r", "p", "l", "a", "n", "e">>
T_task == <<"t", "a", "s", "k">>
T_slug == <<"s", "l", "u", "g">>
T_comment == <<"#", "c">>
T_tq == <<"\"", "\"", "\"">>
T_sep == <<",", " ">>
T_indent == <<" ", " ", " ", " ">>

RECURSIVE Indent(_)
Indent(n) == IF n = 0 THEN <<>> ELSE T_indent \o Indent(n - 1)

\* ------------------------------------------------------------------------
\* Expressions (the ast.expr nodes that occur as decorator keyword values
\* and as parameter defaults).  Every expression record has the fields
\* t (node class), ty (type of a Constant), txt (its own source text) and
\* elts (child expressions).
\* ------------------------------------------------------------------------
Constant(ty, txt) == [t |-> "Constant", ty |-> ty, txt |-> txt, elts |-> <<>>]
StrConst(s) == Constant("str", <<"\"">> \o s \o <<"\"">>)
Name(txt) == [t |-> "Name", ty |-> "", txt |-> txt, elts |-> <<>>]
UnaryOp(e) == [t |-> "UnaryOp", ty |-> "", txt |-> <<"-">>, elts |-> <<e>>]
List(es) == [t |-> "List", ty |-> "", txt |-> <<>>, elts |-> es]
Dict(es) == [t |-> "Dict", ty |-> "", txt |-> <<>>, elts |-> es]
CallOf(callee, es) == [t |-> "Call", ty |-> "", txt |-> callee, elts |-> es]
Call(es) == CallOf(<<"g">>, es)
Attribute(txt) == [t |-> "Attribute", ty |-> "", txt |-> txt, elts |-> <<>>]
\* a keyword argument of a call, arg=value
KeywordArg(arg, e) == [t |-> "keyword", ty |-> "", txt |-> arg \o <<"=">>, elts |-> <<e>>]
IfExp(a, c, b) == [t |-> "IfExp", ty |-> "", txt |-> <<>>, elts |-> <<a, c, b>>]
FormattedValue(e) == [t |-> "FormattedValue", ty |-> "", txt |-> <<>>, elts |-> <<e>>]
JoinedStr(es) == [t |-> "JoinedStr", ty |-> "", txt |-> <<>>, elts |-> es]

\* the string a str Constant denotes (its text without the quotes)
StrValue(e) == SubSeq(e.txt, 2, Len(e.txt) - 1)

RECURSIVE ExprText(_)
ExprsText(es, sep) == Join([i \in 1..Len(es) |-> ExprText(es[i])], sep)
ExprText(e) ==
  CASE e.t = "Constant" -> e.txt
    [] e.t \in {"Name", "Attribute"} -> e.txt
    [] e.t \in {"UnaryOp", "keyword"} -> e.txt \o ExprText(e.elts[1])
    [] e.t = "List" -> <<"[">> \o ExprsText(e.elts, T_sep) \o <<"]">>
    [] e.t = "Dict" ->
         <<"{">> \o Join([i \in 1..Len(e.elts) |->
                           <<"\"", "k", "\"", ":", " ">> \o ExprText(e.elts[i])], T_sep)
                 \o <<"}">>
    [] e.t = "Call" -> e.txt \o <<"(">> \o ExprsText(e.elts, T_sep) \o <<")">>
    [] e.t = "IfExp" ->
         ExprText(e.elts[1]) \o <<" ", "i", "f", " ">> \o ExprText(e.elts[2])
           \o <<" ", "e", "l", "s", "e", " ">> \o ExprText(e.elts[3])
    [] e.t = "FormattedValue" -> <<"{">> \o ExprText(e.elts[1]) \o <<"}">>
    [] e.t = "JoinedStr" ->
         <<"f", "\"">>
           \o Concat([i \in 1..Len(e.elts) |->
                        IF e.elts[i].t = "Constant" THEN StrValue(e.elts[i])
                        ELSE ExprText(e.elts[i])])
           \o <<"\"">>

\* ------------------------------------------------------------------------
\* Source files.  A file is generated from a description (leading comment
\* lines, leading docstring, declarations); Parse lays the description out
\* as text and builds the tree ast.parse reports for that text, with the
\* positions ast reports: 1-based line numbers and 0-based column offsets
\* counted in encoded bytes.
\* ------------------------------------------------------------------------
Pos(l, c, el, ec) == [lineno |-> l, col_offset |-> c, end_lineno |-> el, end_col_offset |-> ec]

Keyword(arg, value) == [arg |-> arg, value |-> value]
Dec(shape, kwargs) == [shape |-> shape, kwargs |-> kwargs]
\* a parameter: annotation is None for a parameter without one, default is
\* <<>> or <<expression>>
TypedParam(name, annotation, default) ==
  [name |-> name, annotation |-> annotation, default |-> default]
Param(name, default) == TypedParam(name, <<>>, default)
FuncUnit(name, async, decs, params, tail, body) ==
  [k |-> "func", name |-> name, async |-> async, decs |-> decs, params |-> params,
   tail |-> tail, body |-> body]
ClassUnit(body) == [k |-> "class", body |-> body]
ImportUnit(names) == [k |-> "import", names |-> names]
FromUnit(module, names) == [k |-> "from", module |-> module, names |-> names]
PassUnit == [k |-> "pass"]
DocUnit == [k |-> "doc"]

KeywordsText(kws) ==
  Join([i \in 1..Len(kws) |-> kws[i].arg \o <<"=">> \o ExprText(kws[i].value)], T_sep)

DecCallee(shape) ==
  CASE shape = "task" -> T_airplane \o <<".">> \o T_task
    [] shape = "bare" -> T_airplane \o <<".">> \o T_task
    [] shape = "name" -> T_task
    [] shape = "deep" -> <<"x", ".">> \o T_airplane \o <<".">> \o T_task
    [] shape = "other_ns" -> <<"o", ".">> \o T_task
    [] shape = "other_attr" -> T_airplane \o <<".", "r", "u", "n">>

\* the decorator expression, without the leading @
DecText(d) ==
  DecCallee(d.shape)
    \o (IF d.shape = "bare" THEN <<>> ELSE <<"(">> \o KeywordsText(d.kwargs) \o <<")">>)

\* the text of the ast.arg node: the name and its annotation
ArgText(p) == p.name \o (IF p.annotation = <<>> THEN <<>> ELSE <<":", " ">> \o p.annotation)

\* the text between the ast.arg node and the default
Assign(p) == IF p.annotation = <<>> THEN <<"=">> ELSE <<" ", "=", " ">>

ParamText(p) ==
  ArgText(p) \o (IF p.default = <<>> THEN <<>> ELSE Assign(p) \o ExprText(p.default[1]))

HeaderPrefix(u, ind) ==
  Indent(ind) \o (IF u.async THEN T_async_def ELSE T_def) \o u.name \o <<"(">>

\* the header text up to, not including, parameter i
BeforeParam(u, ind, i) ==
  HeaderPrefix(u, ind)
    \o Concat([j \in 1..(i - 1) |-> ParamText(u.params[j]) \o T_sep])

\* the tail of a parameter list: "none", "comma" (a trailing comma), or a
\* comment after the last parameter, which puts the parenthesis on a line of
\* its own
TailComment(tail) ==
  CASE tail = "comment" -> <<" ", " ", "#", " ", "c">>
    [] tail = "comment_paren" -> <<" ", " ", "#", " ", "c", ")">>
    [] OTHER -> <<>>

IsCommentTail(tail) == tail \in {"comment", "comment_paren"}

ParamsEnd(u, ind) ==
  HeaderPrefix(u, ind)
    \o Join([j \in 1..Len(u.params) |-> ParamText(u.params[j])], T_sep)
    \o (IF u.tail = "comma" \/ (IsCommentTail(u.tail) /\ u.params # <<>>)
        THEN <<",">> ELSE <<>>)

HeaderLine(u, ind) == ParamsEnd(u, ind) \o <<")", ":">>

HeaderLines(u, ind) ==
  IF IsCommentTail(u.tail)
  THEN <<ParamsEnd(u, ind) \o TailComment(u.tail), Indent(ind) \o <<")", ":">>>>
  ELSE <<HeaderLine(u, ind)>>

DecNode(d, line, ind) ==
  [isCall |-> d.shape # "bare",
   funcIsAttribute |-> d.shape # "name",
   valueIsName |-> d.shape # "deep",
   id |-> IF d.shape = "other_ns" THEN <<"o">> ELSE T_airplane,
   attr |-> IF d.shape = "other_attr" THEN <<"r", "u", "n">> ELSE T_task,
   keywords |-> d.kwargs,
   pos |-> Pos(line, Bytes(Indent(ind)) + 1, line, Bytes(Indent(ind)) + 1 + Bytes(DecText(d)))]

RECURSIVE LayoutUnits(_, _, _), LayoutUnit(_, _, _)
LayoutUnits(units, line0, ind) ==
  IF units = <<>> THEN [lines |-> <<>>, nodes |-> <<>>]
  ELSE LET h == LayoutUnit(Head(units), line0, ind)
           r == LayoutUnits(Tail(units), line0 + Len(h.lines), ind)
       IN [lines |-> h.lines \o r.lines, nodes |-> h.nodes \o r.nodes]

LayoutUnit(u, line0, ind) ==
  CASE u.k = "pass" ->
         [lines |-> <<Indent(ind) \o T_pass>>, nodes |-> <<[k |-> "Pass"]>>]
    [] u.k = "doc" ->
         [lines |-> <<Indent(ind) \o T_tq \o <<"h">> \o T_tq>>, nodes |-> <<[k |-> "Expr"]>>]
    [] u.k = "import" ->
         [lines |-> <<Indent(ind) \o T_import \o Join(u.names, T_sep)>>,
          nodes |-> <<[k |-> "Import", names |-> u.names]>>]
    [] u.k = "from" ->
         [lines |-> <<Indent(ind) \o T_from \o u.module \o <<" ">> \o T_import
                        \o Join(u.names, T_sep)>>,
          nodes |-> <<[k |-> "ImportFrom", module |-> u.module, names |-> u.names]>>]
    [] u.k = "class" ->
         LET b == LayoutUnits(u.body, line0 + 1, ind + 1)
         IN [lines |-> <<Indent(ind) \o T_class>> \o b.lines,
             nodes |-> <<[k |-> "ClassDef", lineno |-> line0, body |-> b.nodes]>>]
    [] u.k = "func" ->
         LET nd == Len(u.decs)
             hl == line0 + nd
             nh == Len(HeaderLines(u, ind))
             b == LayoutUnits(u.body, hl + nh, ind + 1)
             argPos(i) ==
               LET c == Bytes(BeforeParam(u, ind, i))
               IN Pos(hl, c, hl, c + Bytes(ArgText(u.params[i])))
             defPos(i) ==
               LET c == Bytes(BeforeParam(u, ind, i)) + Bytes(ArgText(u.params[i]))
                          + Bytes(Assign(u.params[i]))
               IN Pos(hl, c, hl, c + Bytes(ExprText(u.params[i].default[1])))
             withDefault == SelectSeq([i \in 1..Len(u.params) |-> i],
                                      LAMBDA i : u.params[i].default # <<>>)
         IN [lines |-> [i \in 1..nd |-> Indent(ind) \o <<"@">> \o DecText(u.decs[i])]
                         \o HeaderLines(u, ind) \o b.lines,
             nodes |-> <<[k |-> IF u.async THEN "AsyncFunctionDef" ELSE "FunctionDef",
                          name |-> u.name,
                          pos |-> Pos(hl, Bytes(Indent(ind)), hl + nh - 1 + Len(b.lines),
                                      Bytes(b.lines[Len(b.lines)])),
                          decorator_list |-> [i \in 1..nd |-> DecNode(u.decs[i], line0 + i - 1, ind)],
                          args |-> [i \in 1..Len(u.params) |-> argPos(i)],
                          defaults |-> [j \in 1..Len(withDefault) |->
                                          [value |-> u.params[withDefault[j]].default[1],
                                           pos |-> defPos(withDefault[j])]],
                          rparen |-> IF IsCommentTail(u.tail)
                                     THEN [lineno |-> hl + 1, col |-> Len(Indent(ind))]
                                     ELSE [lineno |-> hl, col |-> Len(ParamsEnd(u, ind))],
                          body |-> b.nodes]>>]

\* the lines of a file description: comments, docstring, declarations
DocLine(doc) ==
  CASE doc = "triple" -> <<T_tq \o <<"d">> \o T_tq>>
    [] doc = "single" -> <<<<"'", "d", "'">>>>
    [] doc = "none" -> <<>>

FileDesc(ncomments, doc, units, broken) ==
  [ncomments |-> ncomments, doc |-> doc, units |-> units, broken |-> broken]

FileLayout(fd) ==
  LayoutUnits(fd.units, fd.ncomments + Len(DocLine(fd.doc)) + 1, 0)

\* a broken file ends with an unclosed parenthesis, which ast.parse rejects
FileLines(fd) ==
  [i \in 1..fd.ncomments |-> T_comment] \o DocLine(fd.doc) \o FileLayout(fd).lines
    \o (IF fd.broken THEN <<<<"(">>>> ELSE <<>>)

\* the text of the file: every line ends with a line break
LinesText(lines) == Concat([i \in 1..Len(lines) |-> Append(lines[i], NL)])

FileText(fd) == LinesText(FileLines(fd))

\* ast.parse of the file's text: the module node, or a SyntaxError for a
\* broken file.  docstring is what ast.get_docstring returns for the module
\* (None when it has no leading docstring).
Parse(fd) ==
  [k |-> "Module",
   broken |-> fd.broken,
   docstring |-> IF fd.doc = "none" THEN None ELSE <<"d">>,
   body |-> (IF fd.doc = "none" THEN <<>> ELSE <<[k |-> "Expr"]>>) \o FileLayout(fd).nodes]

\* ------------------------------------------------------------------------
\* location.py
\* ------------------------------------------------------------------------
Location(start, end) == [start |-> start, end |-> end]

RECURSIVE SumLines(_, _)
SumLines(lines, n) ==
  IF n = 0 THEN 0 ELSE Len(lines[n]) + 1 + SumLines(lines, n - 1)

\* Location.offset indexes lines[0 .. lineno-1]: IndexError beyond the last line
OffsetFails(content, lineno) == lineno > Len(Split(content))

offset(content, lineno, col_offset) == SumLines(Split(content), lineno) + col_offset

\* the byte column taken for the character column
BytesAsChars(line, n) == Min(Len(line), n)

\* len(line.encode("utf-8")[0:n].decode("utf-8")) for n at a character boundary
CharsInBytes(line, n) ==
  LET wide == {i \in 1..Len(line) : ByteLen(line[i]) > 1}
      \* Bytes(SubSeq(line, 1, k))
      bytes(k) == k + Cardinality({i \in wide : i <= k /\ line[i] = "U2"})
                    + 2 * Cardinality({i \in wide : i <= k /\ line[i] = "U3"})
                    + 3 * Cardinality({i \in wide : i <= k /\ line[i] = "U4"})
  IN Cardinality({k \in 1..Min(Len(line), n) : bytes(k) <= n})

\* (the line is split off once, then measured)
to_string_len(content, lineno, col_offset) ==
  CHOOSE r \in {CharsInBytes(line, col_offset + 1) : line \in {Split(content)[lineno + 1]}} :
    TRUE

from_node(pos, content) ==
  LET lineno == pos.lineno - 1
      end_lineno == pos.end_lineno - 1
      col_offset == pos.col_offset - 1
      end_col_offset == pos.end_col_offset - 1
  IN Location(offset(content, lineno, to_string_len(content, lineno, col_offset)),
              offset(content, end_lineno, to_string_len(content, end_lineno, end_col_offset)))

\* ------------------------------------------------------------------------
\* utils.py: Imports
\* ------------------------------------------------------------------------
NoImports == <<>>      \* Imports(): a mapping with no module

Import == [direct |-> FALSE, includes |-> <<>>]

InSeq(x, seq) == \E i \in 1..Len(seq) : seq[i] = x

ImportsGet(imps, module) == IF module \in DOMAIN imps THEN imps[module] ELSE Import

\* Imports.add(module, include); include = None adds the module itself
Imports_add(imps, module, include) ==
  LET imp == ImportsGet(imps, module)
      new == [direct |-> imp.direct \/ include = None,
              includes |-> IF include # None /\ ~InSeq(include, imp.includes)
                           THEN Append(imp.includes, include) ELSE imp.includes]
  IN [m \in DOMAIN imps \cup {module} |-> IF m = module THEN new ELSE imps[m]]

Imports_has(imps, module, include) ==
  IF module \notin DOMAIN imps THEN FALSE
  ELSE IF include = None THEN imps[module].direct
  ELSE InSeq(include, imps[module].includes)

\* ------------------------------------------------------------------------
\* utils.py: apply_updates.  A patch is [loc, value].
\* ------------------------------------------------------------------------
Patch(loc, value) == [loc |-> loc, value |-> value]

\* list.sort(key=start): a stable insertion of each patch after the patches
\* whose start is not greater
RECURSIVE SortByStart(_)
InsertByStart(sorted, u) ==
  LET n == Cardinality({i \in 1..Len(sorted) : sorted[i].loc.start <= u.loc.start})
  IN SubSeq(sorted, 1, n) \o <<u>> \o SubSeq(sorted, n + 1, Len(sorted))
SortByStart(updates) ==
  IF updates = <<>> THEN <<>>
  ELSE InsertByStart(SortByStart(SubSeq(updates, 1, Len(updates) - 1)), updates[Len(updates)])

\* a variant of the assertion that also rejects a patch starting exactly at
\* its predecessor's end
OverlapsOrTouches(sorted) ==
  \E i \in 2..Len(sorted) : ~(sorted[i].loc.start > sorted[i - 1].loc.end)

\* the assertion of apply_updates fails
Overlaps(sorted) == \E i \in 2..Len(sorted) : ~(sorted[i].loc.start >= sorted[i - 1].loc.end)

\* content[0:loc.start] + value + content[loc.end:], last patch first
RECURSIVE Splice(_, _)
Splice(content, sorted) ==
  IF sorted = <<>> THEN content
  ELSE LET u == sorted[Len(sorted)]
       IN Splice(Slice(content, 0, u.loc.start) \o u.value
                   \o Slice(content, u.loc.end, Len(content)),
                 SubSeq(sorted, 1, Len(sorted) - 1))

apply_updates(content, updates) ==
  LET sorted == SortByStart(updates)
  IN IF Overlaps(sorted) THEN [err |-> "AssertionError", text |-> <<>>]
     ELSE [err |-> "none", text |-> Splice(content, sorted)]

\* ------------------------------------------------------------------------
\* parse.py: Parser
\* ------------------------------------------------------------------------
NoLoc == Location(-1, -1)     \* an Optional[Location] that is None
NoClass == 0                  \* _current_class is None

IsFunc(node) == node.k \in {"FunctionDef", "AsyncFunctionDef"}

\* len(decl): "def (" for a FunctionDef, "async def(" otherwise
DeclLen(func) == IF func.k = "FunctionDef" THEN Len(<<"d", "e", "f", " ", "(">>)
                 ELSE Len(<<"a", "s", "y", "n", "c", " ", "d", "e", "f", "(">>)

\* the positions of func.args.args, the defaults (twice) as parse.py collects them
ArgNodes(func) ==
  func.args \o [i \in 1..Len(func.defaults) |-> func.defaults[i].pos]
            \o [i \in 1..Len(func.defaults) |-> func.defaults[i].pos]

\* for arg in args: args_end = max(args_end, loc.end)
MaxEnd(args, content, args_end) ==
  MaxOf({args_end} \cup {from_node(args[i], content).end : i \in 1..Len(args)})

\* for i in range(args_end, len(content)): the first ")" at or after args_end
ScanParen(content, args_end) ==
  LET hits == {i \in args_end..(Len(content) - 1) : content[i + 1] = ")"}
  IN IF hits = {} THEN -1 ELSE MinOf(hits)

\* self.func_def_loc as _generic_visit_func_def computes it
FuncDefLoc(func, content) ==
  LET func_loc == from_node(func.pos, content)
      args_start == func_loc.start + DeclLen(func) + Len(func.name)
      args_end == MaxEnd(ArgNodes(func), content, args_start)
      found == ScanParen(content, args_end)
  IN Location(func_loc.start, (IF found >= 0 THEN found ELSE args_end) + Len(<<")">>))

IsAirplaneTask(dec) ==
  /\ dec.isCall /\ dec.funcIsAttribute /\ dec.valueIsName
  /\ dec.id = T_airplane /\ dec.attr = T_task

\* _get_airplane_decorator: <<dec>> for the first airplane.task(...) call, <<>> for None
_get_airplane_decorator(node) ==
  LET hits == SelectSeq(node.decorator_list, IsAirplaneTask)
  IN IF hits = <<>> THEN <<>> ELSE <<hits[1]>>

ConstantEquals(e, s) == e.t = "Constant" /\ e.ty = "str" /\ StrValue(e) = s

\* a variant that compares the identifier whatever the decorator says
_slug_matches_identifier_only(func, dec, slug) == func.name = slug

\* a variant that falls back to the identifier when the slug keyword is not
\* a constant
_slug_matches_with_fallback(func, dec, slug) ==
  LET ks == SelectSeq(dec.keywords, LAMBDA k : k.arg = T_slug)
  IN IF ks # <<>> /\ ks[1].value.t = "Constant" THEN ConstantEquals(ks[1].value, slug)
     ELSE func.name = slug

\* a variant that takes every candidate for the target
_slug_matches_every_candidate(func, dec, slug) == TRUE

_slug_matches(func, dec, slug) ==
  LET ks == SelectSeq(dec.keywords, LAMBDA k : k.arg = T_slug)
  IN IF ks # <<>> THEN ConstantEquals(ks[1].value, slug)
     ELSE func.name = slug

\* ComputedFieldsParser.visit(node): whether it sets has_computed
ComputedFieldsParser_visit(node) ==
  CASE node.t \in {"Constant", "List", "Dict"} -> FALSE
    [] node.t = "JoinedStr" -> \E i \in 1..Len(node.elts) : node.elts[i].t # "Constant"
    [] OTHER -> TRUE

_has_computed_fields(call, defaults) ==
  \/ \E i \in 1..Len(call.keywords) : ComputedFieldsParser_visit(call.keywords[i].value)
  \/ \E i \in 1..Len(defaults) : ComputedFieldsParser_visit(defaults[i].value)

\* self.decorator_loc: the call node widened by the leading @
DecoratorLoc(dec, content) ==
  LET loc == from_node(dec.pos, content) IN Location(loc.start - 1, loc.end)

\* ------------------------------------------------------------------------
\* serialize.py: Serializer.  A JSON value is [ty, txt, elts]: ty is null,
\* str, int, float, bool or list; txt is the string itself for a str and
\* str(value) for a number or boolean.  A parameter is
\* [slug, type, required, default]; default is None (absent or null) or
\* <<value>>.  A task definition is [slug, parameters]; slug is None once
\* popped.  black.format_str leaves the one-line fragments generated here
\* as they are.
\* ------------------------------------------------------------------------
JNull == [ty |-> "null", txt |-> <<>>, elts |-> <<>>]
JStr(s) == [ty |-> "str", txt |-> s, elts |-> <<>>]
JInt(txt) == [ty |-> "int", txt |-> txt, elts |-> <<>>]
JBool(txt) == [ty |-> "bool", txt |-> txt, elts |-> <<>>]
JList(es) == [ty |-> "list", txt |-> <<>>, elts |-> es]

T_None == <<"N", "o", "n", "e">>
T_typing == <<"t", "y", "p", "i", "n", "g">>
T_datetime == <<"d", "a", "t", "e", "t", "i", "m", "e">>
T_Optional == <<"O", "p", "t", "i", "o", "n", "a", "l">>
T_date == <<"d", "a", "t", "e">>
T_timezone == <<"t", "i", "m", "e", "z", "o", "n", "e">>
T_ConfigVar == T_airplane \o <<".", "C", "o", "n", "f", "i", "g", "V", "a", "r">>
\* a {"config": name} value of a configvar parameter
JConfig(name) == [ty |-> "config", txt |-> name, elts |-> <<>>]

\* value.replace('"', '\\"')
RECURSIVE EscapeQuotes(_)
EscapeQuotes(s) ==
  IF s = <<>> THEN <<>>
  ELSE (IF Head(s) = "\"" THEN <<"\\", "\"">> ELSE <<Head(s)>>) \o EscapeQuotes(Tail(s))

RECURSIVE _serialize(_)
_serialize(value) ==
  CASE value.ty = "null" -> T_None
    [] value.ty = "str" -> <<"\"">> \o EscapeQuotes(value.txt) \o <<"\"">>
    [] value.ty \in {"int", "float", "bool"} -> value.txt
    [] value.ty = "list" ->
         <<"[">> \o Join([i \in 1..Len(value.elts) |-> _serialize(value.elts[i])], <<",">>)
                 \o <<"]">>

\* the py_type table of _serialize_parameter; None for an unknown type
PyType(type) ==
  CASE type = "shorttext" -> <<"s", "t", "r">>
    [] type = "boolean" -> <<"b", "o", "o", "l">>
    [] type = "integer" -> <<"i", "n", "t">>
    [] type = "float" -> <<"f", "l", "o", "a", "t">>
    [] type = "longtext" -> T_airplane \o <<".", "L", "o", "n", "g", "T", "e", "x", "t">>
    [] type = "sql" -> T_airplane \o <<".", "S", "Q", "L">>
    [] type = "upload" -> T_airplane \o <<".", "F", "i", "l", "e">>
    [] type = "date" -> T_date
    [] type = "datetime" -> T_datetime
    [] type = "configvar" -> T_ConfigVar
    [] OTHER -> None

Digit == {"0", "1", "2", "3", "4", "5", "6", "7", "8", "9"}
AllDigits(txt, from, to) == \A i \in from..to : txt[i] \in Digit

\* str(int(txt)): the digits without their leading zeros
StripZeros(txt) ==
  LET nz == {i \in 1..Len(txt) : txt[i] # "0"}
  IN IF nz = {} THEN <<"0">> ELSE SubSeq(txt, MinOf(nz), Len(txt))

\* the strings date.fromisoformat and strptime("%Y-%m-%dT%H:%M:%S[.%f]") take,
\* every field zero-padded
IsIsoDate(v) ==
  /\ Len(v) = 10
  /\ v[5] = "-" /\ v[8] = "-"
  /\ AllDigits(v, 1, 4) /\ AllDigits(v, 6, 7) /\ AllDigits(v, 9, 10)

IsIsoDateTime(v) ==
  /\ Len(v) >= 19
  /\ IsIsoDate(SubSeq(v, 1, 10))
  /\ v[11] = "T" /\ v[14] = ":" /\ v[17] = ":"
  /\ AllDigits(v, 12, 13) /\ AllDigits(v, 15, 16) /\ AllDigits(v, 18, 19)
  /\ \/ Len(v) = 19
     \/ Len(v) \in 21..26 /\ v[20] = "." /\ AllDigits(v, 21, Len(v))

\* d.microsecond of the fraction digits: int(frac.ljust(6, "0"))
Microsecond(frac) ==
  StripZeros(frac \o [i \in 1..(6 - Len(frac)) |-> "0"])

DateComponents(v) ==
  StripZeros(SubSeq(v, 1, 4)) \o T_sep \o StripZeros(SubSeq(v, 6, 7))
    \o T_sep \o StripZeros(SubSeq(v, 9, 10))

\* _serialize_param_value: [err, text, expected]
_serialize_param_value(value, type, expected) ==
  IF type = "datetime" /\ value.ty = "str"
  THEN LET z == Index(value.txt, <<"Z">>)
           v == Slice(value.txt, 0, z)
       IN IF z < 0 \/ ~IsIsoDateTime(v)
          THEN [err |-> "ValueError:datetime", text |-> <<>>, expected |-> expected]
          ELSE LET us == IF Len(v) = 19 THEN <<"0">> ELSE Microsecond(SubSeq(v, 21, Len(v)))
                   components ==
                     DateComponents(v) \o T_sep \o StripZeros(SubSeq(v, 12, 13))
                       \o T_sep \o StripZeros(SubSeq(v, 15, 16))
                       \o T_sep \o StripZeros(SubSeq(v, 18, 19))
                       \o (IF us # <<"0">> THEN T_sep \o us ELSE <<>>)
               IN [err |-> "none",
                   text |-> T_datetime \o <<"(">> \o components \o T_sep
                              \o <<"t", "z", "i", "n", "f", "o", "=">> \o T_timezone
                              \o <<".", "u", "t", "c", ")">>,
                   expected |-> Imports_add(Imports_add(expected, T_datetime, T_timezone),
                                            T_datetime, T_datetime)]
  ELSE IF type = "date" /\ value.ty = "str"
  THEN IF ~IsIsoDate(value.txt)
       THEN [err |-> "ValueError:date", text |-> <<>>, expected |-> expected]
       ELSE [err |-> "none",
             text |-> T_date \o <<"(">> \o DateComponents(value.txt) \o <<")">>,
             expected |-> Imports_add(expected, T_datetime, T_date)]
  ELSE IF type = "configvar" /\ value.ty \in {"str", "config"}
  THEN [err |-> "none",
        text |-> T_ConfigVar \o <<"(">> \o _serialize(JStr(value.txt)) \o <<")">>,
        expected |-> expected]
  ELSE IF type = "configvar" /\ value.ty # "list"
  THEN [err |-> "TypeError", text |-> <<>>, expected |-> expected]
  ELSE [err |-> "none", text |-> _serialize(value), expected |-> expected]

\* _is_py_version_gte: py_version is the minor of the version string (0 for
\* the empty string), env the interpreter's minor and the testing switch
PyVersionFails(py_version, env) == env.testing_ignore /\ py_version = 0

EffectiveMinor(py_version, env) ==
  IF env.testing_ignore THEN py_version
  ELSE IF py_version # 0 THEN Min(py_version, env.minor) ELSE env.minor

_is_py_version_gte(py_version, env, min_version) ==
  EffectiveMinor(py_version, env) >= min_version

\* a variant that counts a given default value only
HasExplicitDefault(param) == param.default # None

\* has_default of _serialize_parameters, and the test of _serialize_parameter
HasDefault(param) == param.default # None \/ ~param.required

\* slug + ": " + py_type, with " = " and the serialized value for a
\* parameter that has a default
Annotated(param, py_type, value) ==
  [err |-> value.err,
   text |-> param.slug \o <<":", " ">> \o py_type
              \o (IF HasDefault(param) THEN <<" ", "=", " ">> \o value.text ELSE <<>>),
   expected |-> value.expected]

\* _serialize_parameter: [err, text, expected]; expected is the Serializer's
\* expected_imports after the call
_serialize_parameter(param, expected, py_version, env) ==
  IF PyType(param.type) = None
  THEN [err |-> "ValueError:param_type", text |-> <<>>, expected |-> expected]
  ELSE IF ~param.required /\ PyVersionFails(py_version, env)
  THEN [err |-> "ValueError:py_version", text |-> <<>>, expected |-> expected]
  ELSE
    LET gte310 == _is_py_version_gte(py_version, env, 10)
        py_type == IF param.required THEN PyType(param.type)
                   ELSE IF gte310 THEN PyType(param.type) \o <<" ", "|", " ">> \o T_None
                   ELSE T_Optional \o <<"[">> \o PyType(param.type) \o <<"]">>
        exp0 == IF param.type \in {"date", "datetime"}
                THEN Imports_add(expected, T_datetime, PyType(param.type)) ELSE expected
        exp == IF ~param.required /\ ~gte310
               THEN Imports_add(exp0, T_typing, T_Optional) ELSE exp0
        default == IF param.default = None THEN JNull ELSE param.default[1]
    IN Annotated(param, py_type,
                 IF HasDefault(param)
                 THEN _serialize_param_value(default, param.type, exp)
                 ELSE [err |-> "none", text |-> <<>>, expected |-> exp])

\* a variant that emits the parameters as they come
ParameterOrderAsGiven(params) == params

\* the order in which _serialize_parameters emits the parameters
ParameterOrder(params) ==
  SelectSeq(params, LAMBDA q : ~HasDefault(q)) \o SelectSeq(params, HasDefault)

\* out.append(...): the text h of a parameter before the texts r of the rest
Appended(text, r) == [err |-> r.err, texts |-> <<text>> \o r.texts, expected |-> r.expected]

RECURSIVE SerializeEach(_, _, _, _), SerializeRest(_, _, _, _, _)
SerializeEach(params, expected, py_version, env) ==
  IF params = <<>> THEN [err |-> "none", texts |-> <<>>, expected |-> expected]
  ELSE SerializeRest(Tail(params), expected, py_version, env,
                     _serialize_parameter(Head(params), expected, py_version, env))

SerializeRest(rest, expected, py_version, env, h) ==
  IF h.err # "none" THEN [err |-> h.err, texts |-> <<>>, expected |-> expected]
  ELSE Appended(h.text, SerializeEach(rest, h.expected, py_version, env))

\* f"{decl} {func_name}({serialized_params})" for the parameters ps
FuncDef(func_name, async, ps) ==
  LET decl == IF async THEN <<"a", "s", "y", "n", "c", " ", "d", "e", "f">>
              ELSE <<"d", "e", "f">>
  IN [err |-> ps.err,
      text |-> decl \o <<" ">> \o func_name \o <<"(">> \o Join(ps.texts, T_sep) \o <<")">>,
      expected |-> ps.expected]

\* serialize_func_def: [err, text, expected]
serialize_func_def(func_name, params, async, expected, py_version, env) ==
  FuncDef(func_name, async, SerializeEach(ParameterOrder(params), expected, py_version, env))

\* serialize_task_def for a definition of a slug and parameters
serialize_task_def(task_def) ==
  <<"@">> \o T_airplane \o <<".">> \o T_task \o <<"(">>
    \o (IF task_def.slug = None THEN <<>>
        ELSE T_slug \o <<"=">> \o _serialize(JStr(task_def.slug)))
    \o <<")">>

\* sorted(...) over the module and symbol names the Serializer can expect
ModuleOrder == <<T_airplane, T_datetime, T_typing>>
IncludeOrder == <<T_Optional, T_date, T_datetime, T_timezone>>

\* serialize_imports
serialize_imports(expected, existing) ==
  LET stmts(name) ==
        (IF expected[name].direct /\ ~Imports_has(existing, name, None)
         THEN <<T_import \o name>> ELSE <<>>)
        \o (LET includes == SelectSeq(IncludeOrder, LAMBDA inc :
                               InSeq(inc, expected[name].includes)
                               /\ ~Imports_has(existing, name, inc))
            IN IF Len(includes) > 0
               THEN <<T_from \o name \o <<" ">> \o T_import \o Join(includes, T_sep)>>
               ELSE <<>>)
      names == SelectSeq(ModuleOrder, LAMBDA name : name \in DOMAIN expected)
  IN Join(Concat([i \in 1..Len(names) |-> stmts(names[i])]), <<NL>>)

\* ------------------------------------------------------------------------
\* update.py
\* ------------------------------------------------------------------------
\* the 0-based index of the first line that is empty or does not start with #
RECURSIVE FirstNonComment(_, _)
FirstNonComment(lines, i) ==
  IF i > Len(lines) THEN -1
  ELSE IF lines[i] = <<>> \/ lines[i][1] # "#" THEN i - 1
  ELSE FirstNonComment(lines, i + 1)

\* get_import_loc: [err, loc]
get_import_loc(content, root) ==
  LET docs == root.docstring
      i == Index(content, docs)
      m == Index(Slice(content, i, Len(content)), T_tq)
      after_docs == IF docs # None /\ i >= 0 /\ m >= 0
                    THEN Len(Split(Slice(content, 0, i + m + Len(T_tq))))
                    ELSE 0
      k == FirstNonComment(Split(content), 1)
      lineno == IF k >= 0 THEN after_docs + k ELSE after_docs
  IN IF docs # None /\ i < 0 THEN [err |-> "ValueError:index", loc |-> NoLoc]
     ELSE IF OffsetFails(content, lineno) THEN [err |-> "IndexError", loc |-> NoLoc]
     ELSE [err |-> "none",
           loc |-> Location(offset(content, lineno, 0), offset(content, lineno, 0))]

\* a variant of the test that looks at the old slug only
FuncNameIsOldSlug(func_name, slug, new_slug) == func_name = slug

\* update(): p.func_name in (slug, new_slug)
FuncNameIsSlug(func_name, slug, new_slug) == func_name = slug \/ func_name = new_slug

\* update(): lines 31-59, run on the Parser's fields p once the traversal
\* is over; [err, text, updates], updates being the list handed to
\* apply_updates (empty when update() raises before the call)
\* serialized_imports += "\n" if len(serialized_imports) > 0 else ""
WithNewline(imports_text) == imports_text \o (IF Len(imports_text) > 0 THEN <<NL>> ELSE <<>>)

\* return apply_updates(content, [...])
Applied(applied, updates) ==
  [err |-> applied.err, text |-> applied.text, updates |-> updates]

ApplyTo(content, updates) == Applied(apply_updates(content, updates), updates)

\* update() from the serialized texts on: f is what serialize_func_def gave,
\* import_loc what get_import_loc gave
Updated(content, p, serialized_task_def, f, import_loc) ==
  IF f.err # "none" THEN [err |-> f.err, text |-> <<>>, updates |-> <<>>]
  ELSE IF import_loc.err # "none"
  THEN [err |-> import_loc.err, text |-> <<>>, updates |-> <<>>]
  ELSE ApplyTo(content,
               <<Patch(p.decorator_loc, serialized_task_def),
                 Patch(p.func_def_loc, f.text),
                 Patch(import_loc.loc,
                       WithNewline(serialize_imports(f.expected, p.imports)))>>)

update(content, root, slug, task_def, py_version, env, p) ==
  IF p.decorator_loc = NoLoc \/ p.func_name = None \/ p.func_def_loc = NoLoc
  THEN [err |-> "TaskNotFound", text |-> <<>>, updates |-> <<>>]
  ELSE
    LET new_slug == task_def.slug
        by_name == FuncNameIsSlug(p.func_name, slug, new_slug)
        func_name == IF by_name THEN new_slug ELSE p.func_name
        td == IF by_name THEN [task_def EXCEPT !.slug = None] ELSE task_def
    IN Updated(content, p, serialize_task_def(td),
               serialize_func_def(func_name, td.parameters, p.is_async,
                                  Imports_add(NoImports, T_airplane, None), py_version, env),
               get_import_loc(content, root))

\* ------------------------------------------------------------------------
\* State
\* ------------------------------------------------------------------------
VARIABLES
  command,        \* sys.argv[1]: "update" or "can_update"
  slug,           \* sys.argv[3]
  task_def,       \* the definition passed to update()
  py_version,     \* the minor of sys.argv[5], 0 for the empty string
  env,            \* interpreter minor version and the testing switch
  disk,           \* the text of the target file on disk
  pc,             \* "start", "visit", "returned", "raised", "exit"
  content,        \* update(): the text read from the file
  root,           \* what ast.parse returns for the text of the target file
  todo,           \* NodeVisitor: the nodes still to visit, in order
  class_depth,    \* the number of class blocks around the node visited next
  current_class,  \* Parser._current_class
  imports,        \* Parser.imports
  decorator_loc,  \* Parser.decorator_loc
  func_def_loc,   \* Parser.func_def_loc
  func_name,      \* Parser.func_name
  is_async,       \* Parser.is_async
  updates,        \* the patch list handed to apply_updates
  err,            \* the exception raised, "none" when there is none
  result,         \* the text update() returned
  stdout,         \* the __airplane_output line of can_update
  exit_code       \* the exit status of the process, -1 while it runs

argv == <<command, slug, task_def, py_version, env>>
parser == <<current_class, imports, decorator_loc, func_def_loc, func_name, is_async>>
vars ==
  <<argv, disk, pc, content, root, todo, class_depth, parser, updates, err, result, stdout,
    exit_code>>

LeaveClass == [k |-> "LeaveClassDef"]

ParserFields ==
  [decorator_loc |-> decorator_loc, func_def_loc |-> func_def_loc,
   func_name |-> func_name, is_async |-> is_async, imports |-> imports]

\* the state before main() runs, for one invocation
InitOf(sc) ==
  /\ command = sc.command
  /\ slug = sc.slug
  /\ task_def = sc.task_def
  /\ py_version = sc.py_version
  /\ env = sc.env
  /\ disk = FileText(sc.file)
  /\ pc = "start"
  /\ content = <<>>
  /\ root = Parse(sc.file)
  /\ todo = <<>>
  /\ class_depth = 0
  /\ current_class = NoClass
  /\ imports = NoImports
  /\ decorator_loc = NoLoc
  /\ func_def_loc = NoLoc
  /\ func_name = None
  /\ is_async = FALSE
  /\ updates = <<>>
  /\ err = "none"
  /\ result = <<>>
  /\ stdout = "none"
  /\ exit_code = -1

Raise(e) == /\ err' = e /\ pc' = "raised"

\* update(): the assertion on the new slug, open/read, ast.parse, Parser(slug, content)
Read ==
  /\ pc = "start"
  /\ UNCHANGED <<argv, disk, class_depth, parser, updates, result, stdout, exit_code>>
  /\ IF task_def.slug = None
     THEN Raise("AssertionError") /\ UNCHANGED <<content, root, todo>>
     ELSE IF root.broken
     THEN /\ content' = disk
          /\ Raise("SyntaxError")
          /\ UNCHANGED <<root, todo>>
     ELSE /\ content' = disk
          /\ todo' = root.body
          /\ pc' = "visit"
          /\ UNCHANGED <<root, err>>

Visiting(kinds) == pc = "visit" /\ todo # <<>> /\ Head(todo).k \in kinds

\* visit_ClassDef, up to and including the call of generic_visit
visit_ClassDef ==
  /\ Visiting({"ClassDef"})
  /\ current_class' = Head(todo).lineno
  /\ class_depth' = class_depth + 1
  /\ todo' = Head(todo).body \o <<LeaveClass>> \o Tail(todo)
  /\ UNCHANGED <<argv, disk, pc, content, root, imports, decorator_loc, func_def_loc,
                 func_name, is_async, updates, err, result, stdout, exit_code>>

\* visit_ClassDef, after generic_visit returned
LeaveClassDef ==
  /\ Visiting({"LeaveClassDef"})
  /\ current_class' = NoClass
  /\ class_depth' = class_depth - 1
  /\ todo' = Tail(todo)
  /\ UNCHANGED <<argv, disk, pc, content, root, imports, decorator_loc, func_def_loc,
                 func_name, is_async, updates, err, result, stdout, exit_code>>

visit_Import ==
  /\ Visiting({"Import"})
  /\ imports' = Imports_add(imports, Head(todo).names[1], None)
  /\ todo' = Tail(todo)
  /\ UNCHANGED <<argv, disk, pc, content, root, class_depth, current_class, decorator_loc,
                 func_def_loc, func_name, is_async, updates, err, result, stdout, exit_code>>

visit_ImportFrom ==
  /\ Visiting({"ImportFrom"})
  /\ UNCHANGED <<argv, disk, content, root, class_depth, current_class, decorator_loc,
                 func_def_loc, func_name, is_async, updates, result, stdout, exit_code>>
  /\ IF Head(todo).module = None
     THEN Raise("AssertionError") /\ UNCHANGED <<imports, todo>>
     ELSE /\ imports' = Imports_add(imports, Head(todo).module, Head(todo).names[1])
          /\ todo' = Tail(todo)
          /\ UNCHANGED <<pc, err>>

\* visit_FunctionDef / visit_AsyncFunctionDef: _generic_visit_func_def
_generic_visit_func_def ==
  /\ Visiting({"FunctionDef", "AsyncFunctionDef"})
  /\ UNCHANGED <<argv, disk, content, root, class_depth, current_class, imports, updates,
                 result, stdout, exit_code>>
  /\ LET func == Head(todo)
         dec == _get_airplane_decorator(func)
     IN IF current_class # NoClass
        THEN /\ todo' = Tail(todo)
             /\ UNCHANGED <<decorator_loc, func_def_loc, func_name, is_async, pc, err>>
        ELSE /\ func_name' = func.name
             /\ func_def_loc' = FuncDefLoc(func, content)
             /\ IF dec = <<>> \/ ~_slug_matches(func, dec[1], slug)
                THEN /\ todo' = func.body \o Tail(todo)
                     /\ UNCHANGED <<decorator_loc, is_async, pc, err>>
                ELSE IF _has_computed_fields(dec[1], func.defaults)
                THEN /\ Raise("ValueError:computed")
                     /\ UNCHANGED <<decorator_loc, is_async, todo>>
                ELSE /\ decorator_loc' = DecoratorLoc(dec[1], content)
                     /\ is_async' = (func.k = "AsyncFunctionDef")
                     /\ todo' = Tail(todo)
                     /\ UNCHANGED <<pc, err>>

\* NodeVisitor.generic_visit of a statement without declarations inside
generic_visit ==
  /\ Visiting({"Pass", "Expr"})
  /\ todo' = Tail(todo)
  /\ UNCHANGED <<argv, disk, pc, content, root, class_depth, parser, updates, err, result,
                 stdout, exit_code>>

\* update(): from the check of the Parser's fields to the return of apply_updates
\* update() raises r.err or returns r.text
Returns(r) ==
  IF r.err # "none"
  THEN Raise(r.err) /\ updates' = r.updates /\ UNCHANGED result
  ELSE /\ result' = r.text
       /\ updates' = r.updates
       /\ pc' = "returned"
       /\ UNCHANGED err

Rewrite ==
  /\ pc = "visit" /\ todo = <<>>
  /\ Returns(update(content, root, slug, task_def, py_version, env, ParserFields))
  /\ UNCHANGED <<argv, disk, content, root, todo, class_depth, parser, stdout, exit_code>>

\* a variant of the write that does not wait for update() to return
WriteWithoutResult ==
  /\ command = "update" /\ pc \in {"returned", "raised"}
  /\ disk' = result
  /\ pc' = "exit"
  /\ exit_code' = 0
  /\ UNCHANGED <<argv, content, root, todo, class_depth, parser, updates, err, result,
                 stdout>>

\* a variant that writes the returned text whatever the command is
WriteWhateverCommand ==
  /\ pc = "returned"
  /\ disk' = result
  /\ pc' = "exit"
  /\ exit_code' = 0
  /\ UNCHANGED <<argv, content, root, todo, class_depth, parser, updates, err, result,
                 stdout>>

\* main(), command update: open(file, "w") and write(contents)
Write ==
  /\ command = "update" /\ pc = "returned"
  /\ disk' = result
  /\ pc' = "exit"
  /\ exit_code' = 0
  /\ UNCHANGED <<argv, content, root, todo, class_depth, parser, updates, err, result,
                 stdout>>

\* main.py: the exception of an update reaches the handler, which exits with 1
Fail ==
  /\ command = "update" /\ pc = "raised"
  /\ pc' = "exit"
  /\ exit_code' = 1
  /\ UNCHANGED <<argv, disk, content, root, todo, class_depth, parser, updates, err,
                 result, stdout>>

\* a variant of can_update that lets the exception through
ReportCanUpdateOrFail ==
  /\ command = "can_update" /\ pc \in {"returned", "raised"}
  /\ stdout' = IF pc = "returned" THEN "true" ELSE "none"
  /\ pc' = "exit"
  /\ exit_code' = IF pc = "returned" THEN 0 ELSE 1
  /\ UNCHANGED <<argv, disk, content, root, todo, class_depth, parser, updates, err,
                 result>>

\* main(), command can_update: the exception is caught, the boolean printed
ReportCanUpdate ==
  /\ command = "can_update" /\ pc \in {"returned", "raised"}
  /\ stdout' = IF pc = "returned" THEN "true" ELSE "false"
  /\ pc' = "exit"
  /\ exit_code' = 0
  /\ UNCHANGED <<argv, disk, content, root, todo, class_depth, parser, updates, err,
                 result>>

Next ==
  \/ Read
  \/ visit_ClassDef
  \/ LeaveClassDef
  \/ visit_Import
  \/ visit_ImportFrom
  \/ _generic_visit_func_def
  \/ generic_visit
  \/ Rewrite
  \/ Write
  \/ Fail
  \/ ReportCanUpdate

\* ------------------------------------------------------------------------
\* The invocations checked: target files, commands and definitions
\* ------------------------------------------------------------------------
ID_a == <<"a">>
ID_b == <<"b">>
ID_c == <<"c">>
ID_g == <<"g">>
ID_x == <<"x">>

SeqsUpTo(S, n) == UNION {[1..m -> S] : m \in 1..n}

TaskDec(kws) == Dec("task", kws)
SlugKw(e) == Keyword(T_slug, e)
ComputedSlug == IfExp(StrConst(ID_a), Name(<<"v">>), StrConst(ID_b))

Leaf(name, async, decs) == FuncUnit(name, async, decs, <<>>, "none", <<PassUnit>>)
Inside(name, body) == FuncUnit(name, FALSE, <<>>, <<>>, "none", body)

\* the declaration the target slug a names, by identifier and by slug argument
ByName == Leaf(ID_a, FALSE, <<TaskDec(<<>>)>>)
BySlug == Leaf(ID_b, FALSE, <<TaskDec(<<SlugKw(StrConst(ID_a))>>)>>)

Leafs ==
  {ByName, BySlug,
   Leaf(ID_a, TRUE, <<TaskDec(<<>>)>>),
   Leaf(ID_a, FALSE, <<>>),
   Leaf(ID_a, FALSE, <<TaskDec(<<SlugKw(StrConst(ID_b))>>)>>),
   Leaf(ID_a, FALSE, <<TaskDec(<<SlugKw(ComputedSlug)>>)>>),
   Leaf(ID_b, FALSE, <<>>),
   Leaf(ID_b, TRUE, <<TaskDec(<<>>)>>)}

Nested ==
  {ClassUnit(<<ByName>>),
   ClassUnit(<<ClassUnit(<<PassUnit>>), ByName>>),
   ClassUnit(<<ClassUnit(<<ByName>>)>>),
   ClassUnit(<<Inside(ID_g, <<ByName>>)>>),
   Inside(ID_g, <<ByName>>)}

Units == Leafs \cup Nested \cup {ImportUnit(<<T_airplane>>)}

StructFiles == {FileDesc(0, "none", us, FALSE) : us \in SeqsUpTo(Units, MaxUnits)}

C_1 == Constant("int", <<"1">>)
Atoms ==
  {C_1, Constant("none", T_None), Constant("bool", <<"T", "r", "u", "e">>),
   Constant("float", <<"1", ".", "5">>), StrConst(<<"s">>), StrConst(<<"U3">>),
   UnaryOp(C_1), Name(<<"v">>), Call(<<>>), IfExp(C_1, Name(<<"v">>), C_1),
   JoinedStr(<<StrConst(<<"s">>)>>),
   JoinedStr(<<StrConst(<<"s">>), FormattedValue(Name(<<"v">>))>>)}

RECURSIVE Exprs(_)
Exprs(d) ==
  IF d = 0 THEN Atoms
  ELSE LET E == Exprs(d - 1)
       IN E \cup {List(<<>>)} \cup {List(<<e>>) : e \in E} \cup {Dict(<<e>>) : e \in E}
            \cup {List(<<C_1, e>>) : e \in E}

\* one declaration named a: e is a decorator argument or a parameter default
ExprFiles ==
  {FileDesc(0, "none", <<Leaf(ID_a, FALSE, <<TaskDec(<<Keyword(<<"r">>, e)>>)>>)>>, FALSE)
     : e \in Exprs(MaxDepth)}
  \cup
  {FileDesc(0, "none",
            <<FuncUnit(ID_a, FALSE, <<TaskDec(<<>>)>>, <<Param(ID_x, <<e>>)>>, tail,
                       <<PassUnit>>)>>, FALSE)
     : e \in Exprs(MaxDepth), tail \in {"none", "comma"}}

\* leading comment lines and docstrings
PrefixFiles ==
  {FileDesc(n, doc, us, FALSE) :
     n \in 0..MaxComments, doc \in {"none", "triple", "single"},
     us \in {<<ByName>>, <<ImportUnit(<<T_airplane>>), ByName>>,
             <<ImportUnit(<<T_airplane>>),
               FuncUnit(ID_a, FALSE, <<TaskDec(<<>>)>>, <<>>, "none", <<DocUnit>>)>>}}

\* decorators of other shapes, and several decorators on one declaration
DecFiles ==
  {FileDesc(0, "none", <<Leaf(ID_a, FALSE, decs)>>, FALSE) :
     decs \in {<<Dec(shape, <<>>)>> :
                 shape \in {"bare", "name", "deep", "other_ns", "other_attr"}}
              \cup {<<Dec("other_ns", <<>>), TaskDec(<<>>)>>,
                    <<TaskDec(<<SlugKw(StrConst(ID_b))>>), TaskDec(<<>>)>>,
                    <<TaskDec(<<Keyword(<<"r">>, C_1), SlugKw(StrConst(ID_a))>>)>>}}

\* imports of several names, from-imports, a relative import
ImportFiles ==
  {FileDesc(0, "none", <<imp, ByName>>, FALSE) :
     imp \in {ImportUnit(<<ID_x, T_airplane>>),
              FromUnit(T_typing, <<T_Optional>>),
              FromUnit(T_typing, <<ID_x, T_Optional>>),
              FromUnit(None, <<ID_x>>)}}

BrokenFiles == {FileDesc(0, "none", <<ByName>>, TRUE)}

\* files that already import what the generated text needs
ImportedFiles ==
  {FileDesc(0, "none", <<FromUnit(T_typing, names), ImportUnit(<<T_airplane>>), ByName>>,
            FALSE) :
     names \in {<<T_Optional>>, <<ID_x, T_Optional>>, <<T_Optional, ID_x>>}}

\* declarations whose parameter list ends in each of the ways a header can
HeaderFiles ==
  {FileDesc(0, "none",
            <<ImportUnit(<<T_airplane>>),
              FuncUnit(ID_a, async, <<TaskDec(<<>>)>>, h[1], h[2], <<PassUnit>>)>>, FALSE) :
     async \in BOOLEAN,
     h \in {h \in {<<>>, <<Param(ID_x, <<>>)>>, <<Param(ID_x, <<C_1>>)>>}
                   \X {"none", "comma", "comment", "comment_paren"} :
              h[2] = "comma" => h[1] # <<>>}}

\* a literal-only declaration that matches the target slug, among
\* declarations with computed arguments or defaults that do not match
LiteralMatch ==
  FuncUnit(ID_a, FALSE, <<TaskDec(<<Keyword(<<"r">>, C_1)>>)>>,
           <<Param(ID_x, <<StrConst(<<"s">>)>>)>>, "none", <<PassUnit>>)

ComputedOthers ==
  {FuncUnit(ID_b, FALSE, <<TaskDec(<<Keyword(<<"r">>, Call(<<>>))>>)>>,
            <<Param(ID_x, <<Name(<<"v">>)>>)>>, "none", <<PassUnit>>),
   FuncUnit(ID_a, FALSE, <<TaskDec(<<SlugKw(ComputedSlug)>>)>>,
            <<Param(ID_x, <<IfExp(C_1, Name(<<"v">>), C_1)>>)>>, "none", <<PassUnit>>)}

ComputedFiles ==
  {FileDesc(0, "none", before \o <<LiteralMatch>> \o after, FALSE) :
     before \in {<<>>} \cup SeqsUpTo(ComputedOthers, MaxUnits),
     after \in {<<>>} \cup SeqsUpTo(ComputedOthers, MaxUnits)}

Definition(new_slug, params) == [slug |-> new_slug, parameters |-> params]
JParam(s, type, required, default) ==
  [slug |-> s, type |-> type, required |-> required, default |-> default]

ParamLists ==
  {<<>>,
   <<JParam(ID_x, "integer", TRUE, None)>>,
   <<JParam(ID_x, "integer", FALSE, None)>>,
   <<JParam(ID_x, "shorttext", TRUE, <<JStr(<<"s">>)>>)>>,
   <<JParam(ID_x, "bogus", TRUE, None)>>}

Env(minor, testing_ignore) == [minor |-> minor, testing_ignore |-> testing_ignore]
ThisEnv == Env(11, FALSE)

Scenario(f, cmd, td, pv, e) ==
  [file |-> f, command |-> cmd, slug |-> ID_a,
   task_def |-> IF cmd = "can_update" THEN Definition(ID_a, <<>>) ELSE td,
   py_version |-> IF cmd = "can_update" THEN 0 ELSE pv,
   env |-> e]

Commands == {"update", "can_update"}

\* files updated to a new slug: an import line, the target declaration, and
\* possibly another declaration before or after it
RenameFiles ==
  {FileDesc(0, "none", <<ImportUnit(<<T_airplane>>)>> \o us, FALSE) :
     us \in {<<ByName>>, <<Leaf(ID_a, TRUE, <<TaskDec(<<>>)>>)>>, <<BySlug>>,
             <<ByName, Leaf(ID_b, FALSE, <<>>)>>, <<Leaf(ID_b, FALSE, <<>>), ByName>>,
             <<BySlug, Leaf(ID_a, FALSE, <<>>)>>, <<Leaf(ID_g, FALSE, <<>>), BySlug>>}}

Scenarios ==
  {Scenario(f, cmd, Definition(ID_c, <<>>), 0, ThisEnv) :
     f \in StructFiles \cup ExprFiles \cup PrefixFiles \cup DecFiles \cup ImportFiles
           \cup BrokenFiles \cup HeaderFiles,
     cmd \in Commands}
  \cup
  {Scenario(f, "update", Definition(new_slug, params), pv, e) :
     f \in {FileDesc(0, "none", <<ImportUnit(<<T_airplane>>), ByName>>, FALSE),
            FileDesc(0, "none", <<BySlug>>, FALSE)},
     new_slug \in {None, ID_a, ID_c},
     params \in ParamLists,
     pv \in {0, 9},
     e \in {ThisEnv, Env(9, FALSE), Env(11, TRUE)}}
  \cup
  {Scenario(f, "update", Definition(new_slug, <<>>), 0, ThisEnv) :
     f \in RenameFiles, new_slug \in {ID_a, ID_b, ID_c}}
  \cup
  {Scenario(f, "can_update", Definition(ID_a, <<>>), 0, ThisEnv) : f \in ComputedFiles}
  \cup
  {Scenario(f, "update", Definition(ID_a, params), 9, ThisEnv) :
     f \in ImportedFiles,
     params \in {<<>>, <<JParam(ID_x, "integer", FALSE, None)>>}}

Init == \E sc \in Scenarios : InitOf(sc)

Spec == Init /\ [][Next]_vars

\* ------------------------------------------------------------------------
\* apply_updates on its own: any text and any list of patches inside it
\* ------------------------------------------------------------------------
TextChars == <<"a", "b", "c", "d", "e", "f">>
Texts == {SubSeq(TextChars, 1, n) : n \in 0..MaxTextLen}
Values == {<<>>, <<"X">>, <<"Y", "Z">>}
Spans(n) == {l \in [start : 0..n, end : 0..n] : l.start <= l.end}
Patches(n) == {Patch(l, v) : l \in Spans(n), v \in Values}
PatchLists(n) == {<<>>} \cup SeqsUpTo(Patches(n), MaxPatches)

InitApply ==
  /\ command = "none"
  /\ slug = None
  /\ task_def = Definition(None, <<>>)
  /\ py_version = 0
  /\ env = ThisEnv
  /\ disk = <<>>
  /\ pc = "apply_updates"
  /\ content \in Texts
  /\ root = [k |-> "Module", broken |-> FALSE, docstring |-> None, body |-> <<>>]
  /\ todo = <<>>
  /\ class_depth = 0
  /\ current_class = NoClass
  /\ imports = NoImports
  /\ decorator_loc = NoLoc
  /\ func_def_loc = NoLoc
  /\ func_name = None
  /\ is_async = FALSE
  /\ updates \in PatchLists(Len(content))
  /\ err = "none"
  /\ result = <<>>
  /\ stdout = "none"
  /\ exit_code = -1

\* one call apply_updates(content, updates)
ApplyUpdates ==
  /\ pc = "apply_updates"
  /\ LET r == apply_updates(content, updates)
     IN IF r.err # "none"
        THEN Raise(r.err) /\ UNCHANGED result
        ELSE /\ result' = r.text
             /\ pc' = "returned"
             /\ UNCHANGED err
  /\ UNCHANGED <<argv, disk, content, root, todo, class_depth, parser, updates, stdout,
                 exit_code>>

NextApply == ApplyUpdates

SpecApply == InitApply /\ [][NextApply]_vars

\* ------------------------------------------------------------------------
\* Properties
\* ------------------------------------------------------------------------
FuncKinds == {"FunctionDef", "AsyncFunctionDef"}

\* the step visits a function declaration that no class block encloses
VisitsFunction == Visiting(FuncKinds) /\ class_depth = 0

\* ... and the declaration carries an airplane.task(...) decorator
VisitsCandidate == VisitsFunction /\ _get_airplane_decorator(Head(todo)) # <<>>

TheDecorator == _get_airplane_decorator(Head(todo))[1]

SlugKeywords(dec) == SelectSeq(dec.keywords, LAMBDA k : k.arg = T_slug)

\* the step treats the declaration it visits as the target
Selects ==
  \/ decorator_loc' = DecoratorLoc(TheDecorator, content)
  \/ err' = "ValueError:computed"

VisitsMatch == VisitsCandidate /\ _slug_matches(Head(todo), TheDecorator, slug)

Disjoint(l1, l2) == l1.end <= l2.start \/ l2.end <= l1.start

\* C1: an update that fails never writes the target file, and the file is
\* written only once update() has returned the complete new text.
C1_FileWrittenOnlyOnSuccess ==
  [][command = "update" =>
       /\ (err' # "none" => disk' = disk)
       /\ (disk' # disk => pc = "returned" /\ err = "none" /\ disk' = result)]_vars

C1_FailedUpdateExited ==
  /\ command = "update" /\ pc = "exit" /\ exit_code = 1
  /\ err = "ValueError:computed"
  /\ disk = content

\* C2: once the traversal of a file with exactly one matching top-level
\* declaration is over, the header Location, identifier, decorator Location
\* and async flag of the Parser are those of that declaration.
IsMatch(node) ==
  /\ IsFunc(node)
  /\ _get_airplane_decorator(node) # <<>>
  /\ _slug_matches(node, _get_airplane_decorator(node)[1], slug)

C2_FieldsBelongToTheMatch ==
  (pc = "visit" /\ todo = <<>> /\ Len(SelectSeq(root.body, IsMatch)) = 1) =>
    LET m == SelectSeq(root.body, IsMatch)[1]
    IN /\ func_def_loc = FuncDefLoc(m, content)
       /\ func_name = m.name
       /\ decorator_loc = DecoratorLoc(_get_airplane_decorator(m)[1], content)
       /\ is_async = (m.k = "AsyncFunctionDef")

\* C3: for patches inside the text, with start <= end and pairwise
\* non-overlapping, apply_updates returns the text with each span replaced by
\* its value and everything else kept in order; the length of the result is
\* the length of the text, minus the spans, plus the values.
WithinText(ps, text) ==
  \A i \in 1..Len(ps) : 0 <= ps[i].loc.start /\ ps[i].loc.start <= ps[i].loc.end
                        /\ ps[i].loc.end <= Len(text)

NonOverlapping(ps) == \A i, j \in 1..Len(ps) : i # j => Disjoint(ps[i].loc, ps[j].loc)

ComesBefore(p, i, q, j) ==
  \/ p.loc.start < q.loc.start
  \/ p.loc.start = q.loc.start /\ p.loc.end < q.loc.end
  \/ p.loc.start = q.loc.start /\ p.loc.end = q.loc.end /\ i < j

\* the patches from left to right
LeftToRight(ps) ==
  [k \in 1..Len(ps) |->
     ps[CHOOSE i \in 1..Len(ps) :
          Cardinality({j \in 1..Len(ps) : ComesBefore(ps[j], j, ps[i], i)}) = k - 1]]

Replaced(text, ps) ==
  LET o == LeftToRight(ps)
      n == Len(o)
      kept(k) == Slice(text, IF k = 1 THEN 0 ELSE o[k - 1].loc.end,
                       IF k > n THEN Len(text) ELSE o[k].loc.start)
  IN Concat([k \in 1..n |-> kept(k) \o o[k].value]) \o kept(n + 1)

RECURSIVE SpanTotal(_)
SpanTotal(ps) ==
  IF ps = <<>> THEN 0 ELSE Head(ps).loc.end - Head(ps).loc.start + SpanTotal(Tail(ps))

RECURSIVE ValueTotal(_)
ValueTotal(ps) == IF ps = <<>> THEN 0 ELSE Len(Head(ps).value) + ValueTotal(Tail(ps))

C3_DisjointPatchesAreApplied ==
  (pc \in {"returned", "raised"} /\ WithinText(updates, content) /\ NonOverlapping(updates)) =>
    /\ pc = "returned"
    /\ result = Replaced(content, updates)
    /\ Len(result) = Len(content) - SpanTotal(updates) + ValueTotal(updates)

\* C4: apply_updates fails with an assertion and returns no text exactly
\* when, in the list sorted by start, some patch starts before the end of the
\* patch preceding it; a patch starting at the preceding patch's end passes.
StartsBeforePrevEnd(sorted) ==
  \E i \in 2..Len(sorted) : sorted[i].loc.start < sorted[i - 1].loc.end

C4_AssertionIffStartBeforePrevEnd ==
  pc \in {"returned", "raised"} =>
    /\ StartsBeforePrevEnd(SortByStart(updates)) =>
         pc = "raised" /\ err = "AssertionError" /\ result = <<>>
    /\ ~StartsBeforePrevEnd(SortByStart(updates)) => pc = "returned" /\ err = "none"

C4_AdjacentPatchesAccepted ==
  /\ pc = "returned"
  /\ Len(updates) = 2
  /\ updates[1].loc.start < updates[1].loc.end
  /\ updates[2].loc.start = updates[1].loc.end
  /\ updates[2].loc.start < updates[2].loc.end

\* C5: the decorator span, the header span and the import-insertion point
\* that update() hands to apply_updates are pairwise non-overlapping, and the
\* import-insertion point is at or before the start of both spans.
C5_ImportPointComesFirst ==
  (command # "none" /\ updates # <<>>) =>
    LET dec == updates[1].loc
        hdr == updates[2].loc
        imp == updates[3].loc
    IN /\ Disjoint(dec, hdr) /\ Disjoint(dec, imp) /\ Disjoint(hdr, imp)
       /\ imp.start <= Min(dec.start, hdr.start)

\* C6: a matched declaration with a decorator argument that contains a call,
\* a conditional expression or a template with a non-literal segment, as the
\* whole value or inside a list or mapping, raises manual-update-required and
\* the file stays as it is.
RECURSIVE ContainsComputed(_)
ContainsComputed(e) ==
  CASE e.t \in {"Call", "IfExp"} -> TRUE
    [] e.t = "JoinedStr" -> \E i \in 1..Len(e.elts) : e.elts[i].t # "Constant"
    [] e.t \in {"List", "Dict"} -> \E i \in 1..Len(e.elts) : ContainsComputed(e.elts[i])
    [] OTHER -> FALSE

C6_ComputedArgumentSignals ==
  [][(VisitsMatch /\ \E i \in 1..Len(TheDecorator.keywords) :
                        ContainsComputed(TheDecorator.keywords[i].value))
       => err' = "ValueError:computed" /\ disk' = disk]_vars

\* C7: a matched declaration whose decorator arguments and parameter defaults
\* are scalars (negative numbers included), lists of them and mappings of
\* them does not raise manual-update-required.
RECURSIVE LiteralOnly(_)
LiteralOnly(e) ==
  CASE e.t = "Constant" -> TRUE
    [] e.t = "UnaryOp" -> e.elts[1].t = "Constant" /\ e.elts[1].ty \in {"int", "float"}
    [] e.t \in {"List", "Dict"} -> \A i \in 1..Len(e.elts) : LiteralOnly(e.elts[i])
    [] OTHER -> FALSE

C7_LiteralsNeverSignal ==
  [][(/\ VisitsMatch
      /\ \A i \in 1..Len(TheDecorator.keywords) : LiteralOnly(TheDecorator.keywords[i].value)
      /\ \A i \in 1..Len(Head(todo).defaults) : LiteralOnly(Head(todo).defaults[i].value))
       => err' # "ValueError:computed"]_vars

\* C8: a candidate with a literal slug keyword is treated as the target
\* exactly when the literal equals the target slug, whatever its identifier;
\* a candidate without a slug keyword exactly when its identifier equals it.
C8_MatchByLiteralSlugElseIdentifier ==
  [][VisitsCandidate =>
       LET ks == SlugKeywords(TheDecorator)
       IN /\ (ks # <<>> /\ ks[1].value.t = "Constant") =>
               (Selects <=> (ks[1].value.ty = "str" /\ StrValue(ks[1].value) = slug))
          /\ ks = <<>> => (Selects <=> Head(todo).name = slug)]_vars

C8_SelectedBySlugUnderOtherIdentifier ==
  /\ pc = "visit" /\ todo = <<>>
  /\ Len(root.body) = 1 /\ IsMatch(root.body[1])
  /\ root.body[1].name # slug
  /\ SlugKeywords(_get_airplane_decorator(root.body[1])[1]) # <<>>
  /\ decorator_loc = DecoratorLoc(_get_airplane_decorator(root.body[1])[1], content)

\* C9, as stated: a candidate whose slug keyword is not a literal is treated
\* as the target exactly when its identifier equals the target slug.
C9_NonLiteralSlugFallsBackToIdentifier ==
  [][VisitsCandidate =>
       LET ks == SlugKeywords(TheDecorator)
       IN (ks # <<>> /\ ks[1].value.t # "Constant") =>
            (Selects <=> Head(todo).name = slug)]_vars

\* C9, amended: a candidate whose slug keyword is not a literal is never
\* treated as the target, whatever its identifier.
C9_NonLiteralSlugNeverMatches ==
  [][VisitsCandidate =>
       LET ks == SlugKeywords(TheDecorator)
       IN (ks # <<>> /\ ks[1].value.t # "Constant") =>
            /\ ~Selects
            /\ UNCHANGED <<decorator_loc, is_async, err>>]_vars

C9_NonLiteralSlugPassedOver ==
  /\ pc = "visit" /\ todo = <<>>
  /\ Len(root.body) = 1 /\ IsFunc(root.body[1])
  /\ root.body[1].name = slug
  /\ _get_airplane_decorator(root.body[1]) # <<>>
  /\ SlugKeywords(_get_airplane_decorator(root.body[1])[1]) # <<>>
  /\ SlugKeywords(_get_airplane_decorator(root.body[1])[1])[1].value.t # "Constant"
  /\ decorator_loc = NoLoc

\* C10: visiting a function declaration that lies inside a class block, at
\* any position and under any nesting of class blocks, changes neither the
\* header Location, nor the identifier, nor the decorator Location.
C10_ClassFunctionsIgnored ==
  [][(Visiting(FuncKinds) /\ class_depth > 0)
       => UNCHANGED <<func_def_loc, func_name, decorator_loc>>]_vars

\* C11: a function declared inside the body of another function is never
\* treated as the target, even when its decorator names the target slug.
RECURSIVE FunctionsInFunctions(_, _)
FunctionsInFunctions(nodes, in_func) ==
  UNION {LET node == nodes[i]
         IN IF IsFunc(node)
            THEN (IF in_func THEN {node} ELSE {}) \cup FunctionsInFunctions(node.body, TRUE)
            ELSE IF node.k = "ClassDef" THEN FunctionsInFunctions(node.body, in_func)
            ELSE {}
         : i \in 1..Len(nodes)}

C11_NestedFunctionsNeverSelected ==
  [][(Visiting(FuncKinds) /\ Head(todo) \in FunctionsInFunctions(root.body, FALSE))
       => UNCHANGED <<decorator_loc, is_async, err>>]_vars

\* every function declaration of the file, at any depth
RECURSIVE AllFunctions(_)
AllFunctions(nodes) ==
  UNION {LET node == nodes[i]
         IN IF IsFunc(node) THEN {node} \cup AllFunctions(node.body)
            ELSE IF node.k = "ClassDef" THEN AllFunctions(node.body)
            ELSE {}
         : i \in 1..Len(nodes)}

\* the declaration whose decorator the Parser recorded
LocatedDeclaration ==
  CHOOSE f \in AllFunctions(root.body) :
    /\ _get_airplane_decorator(f) # <<>>
    /\ DecoratorLoc(_get_airplane_decorator(f)[1], content) = decorator_loc

HasSlugArgument(text) == Index(text, T_slug \o <<"=">>) >= 0

HeaderOf(async, name) ==
  (IF async THEN T_async_def ELSE T_def) \o name \o <<"(">>

StartsWith(text, prefix) == SubSeq(text, 1, Min(Len(prefix), Len(text))) = prefix

UpdateReturned == command = "update" /\ pc = "returned"

\* C12: when the located declaration's identifier is the target slug and
\* the new slug differs from it, update rewrites the header of that
\* declaration with the new slug as identifier, and the rewritten decorator
\* has no slug argument.
C12_RenamedWithoutSlugArgument ==
  (UpdateReturned /\ LocatedDeclaration.name = slug /\ task_def.slug # slug) =>
    /\ ~HasSlugArgument(updates[1].value)
    /\ updates[2].loc = FuncDefLoc(LocatedDeclaration, content)
    /\ StartsWith(updates[2].value,
                  HeaderOf(LocatedDeclaration.k = "AsyncFunctionDef", task_def.slug))

C14_CanUpdateReportsOutcome ==
  (command = "can_update" /\ pc = "exit") =>
    /\ task_def = Definition(slug, <<>>)
    /\ exit_code = 0
    /\ stdout \in {"true", "false"}
    /\ stdout = "true" <=> err = "none"
    /\ stdout = "true" => result = apply_updates(content, updates).text /\ updates # <<>>

C14_ManualUpdateReportedFalse ==
  /\ command = "can_update" /\ pc = "exit"
  /\ err = "ValueError:computed"
  /\ stdout = "false"
  /\ exit_code = 0

\* the import statements of the file name the module (include = None) or
\* the symbol of the module
FileImports(module, include) ==
  \E i \in 1..Len(root.body) :
    LET node == root.body[i]
    IN IF include = None
       THEN node.k = "Import" /\ InSeq(module, node.names)
       ELSE node.k = "ImportFrom" /\ node.module = module /\ InSeq(include, node.names)

\* Serializer.expected_imports once the header has been serialized
ExpectedImports ==
  serialize_func_def(func_name, task_def.parameters, is_async,
                     Imports_add(NoImports, T_airplane, None), py_version, env).expected

FileImportsAllExpected ==
  \A module \in DOMAIN ExpectedImports :
    /\ ExpectedImports[module].direct => FileImports(module, None)
    /\ \A i \in 1..Len(ExpectedImports[module].includes) :
         FileImports(module, ExpectedImports[module].includes[i])

\* C15: an update of a file that already imports everything the generated
\* text needs adds no import line.
C15_NoImportAddedWhenAllPresent ==
  (UpdateReturned /\ FileImportsAllExpected) => updates[3].value = <<>>

\* C16: once the traversal is over, the Parser's imports hold every module
\* named by an import statement of the file and, for every from-import
\* statement, every symbol it imports from its module.
C16_RegistryHoldsEveryImportedName ==
  (pc = "visit" /\ todo = <<>>) =>
    \A i \in 1..Len(root.body) :
      LET node == root.body[i]
      IN /\ node.k = "Import" =>
              \A j \in 1..Len(node.names) : Imports_has(imports, node.names[j], None)
         /\ node.k = "ImportFrom" =>
              \A j \in 1..Len(node.names) : Imports_has(imports, node.module, node.names[j])

\* ------------------------------------------------------------------------
\* The Serializer on parameter lists: serialize_func_def applied to lists
\* of up to MaxParams parameters named p1, p2, ... by position
\* ------------------------------------------------------------------------
DigitChar == <<"1", "2", "3", "4", "5", "6", "7", "8", "9">>
ParamSlug(i) == <<"p", DigitChar[i]>>

V_date == <<"2", "0", "0", "6", "-", "0", "1", "-", "0", "2">>
V_datetime == V_date \o <<"T", "1", "5", ":", "0", "4", ":", "0", "5", "Z">>
V_datetime2 == V_date \o <<"T", "1", "5", ":", "0", "4", ":", "0", "5", ".", "1", "2", "3", "Z">>

ParamKinds(s) ==
  {JParam(s, "integer", TRUE, None),
   JParam(s, "integer", TRUE, <<JInt(<<"1">>)>>),
   JParam(s, "integer", FALSE, None),
   JParam(s, "shorttext", FALSE, <<JStr(<<"s">>)>>),
   JParam(s, "date", TRUE, <<JStr(V_date)>>),
   JParam(s, "bogus", TRUE, None)}

\* the parameter types of the enumeration at _serialize_parameter
ParamTypes ==
  {"shorttext", "longtext", "sql", "boolean", "integer", "float", "upload", "date",
   "datetime", "configvar"}

\* one optional parameter without a default, of every type
OptionalOfEveryType == {<<JParam(ParamSlug(1), t, FALSE, None)>> : t \in ParamTypes}

RECURSIVE ParamListsOf(_)
ParamListsOf(n) ==
  IF n = 0 THEN {<<>>}
  ELSE {Append(ps, q) : ps \in ParamListsOf(n - 1), q \in ParamKinds(ParamSlug(n))}

InitSerialize ==
  /\ command = "none"
  /\ slug = None
  /\ \E n \in 0..MaxParams : \E ps \in ParamListsOf(n) \cup OptionalOfEveryType :
       task_def = Definition(ID_a, ps)
  /\ py_version \in {9, 10}
  /\ env = ThisEnv
  /\ disk = <<>>
  /\ pc = "serialize"
  /\ content = <<>>
  /\ root = [k |-> "Module", broken |-> FALSE, docstring |-> None, body |-> <<>>]
  /\ todo = <<>>
  /\ class_depth = 0
  /\ current_class = NoClass
  /\ imports = NoImports
  /\ decorator_loc = NoLoc
  /\ func_def_loc = NoLoc
  /\ func_name = ID_a
  /\ is_async \in BOOLEAN
  /\ updates = <<>>
  /\ err = "none"
  /\ result = <<>>
  /\ stdout = "none"
  /\ exit_code = -1

\* the call raises s.err or returns s.text
Serializes(s) ==
  IF s.err # "none"
  THEN Raise(s.err) /\ UNCHANGED result
  ELSE pc' = "returned" /\ result' = s.text /\ UNCHANGED err

\* Serializer(py_version).serialize_func_def(func_name, parameters, is_async)
SerializeFuncDef ==
  /\ pc = "serialize"
  /\ Serializes(serialize_func_def(func_name, task_def.parameters, is_async, NoImports,
                                   py_version, env))
  /\ UNCHANGED <<argv, disk, content, root, todo, class_depth, parser, updates, stdout,
                 exit_code>>

NextSerialize == SerializeFuncDef

SpecSerialize == InitSerialize /\ [][NextSerialize]_vars

Serialized == pc = "returned" /\ command = "none"

\* where the parameter starts in the generated text, and its rendering
StartOf(param) == Index(result, param.slug \o <<":">>)
Rendering(param) ==
  LET later == {StartOf(task_def.parameters[j]) : j \in 1..Len(task_def.parameters)}
                 \cap (StartOf(param) + 1 .. Len(result))
  IN Slice(result, StartOf(param), MinOf(later \cup {Len(result)}))
RenderedWithDefault(param) == Index(Rendering(param), <<" ", "=", " ">>) >= 0
Occurrences(text, sub) ==
  Cardinality({i \in 0..(Len(text) - Len(sub)) : Slice(text, i, i + Len(sub)) = sub})

\* p comes before q in the input and both are in the same group, or p is in
\* the first group and q is not
EmittedBefore(first(_), i, j) ==
  LET ps == task_def.parameters
  IN (first(ps[i]) /\ ~first(ps[j])) \/ (first(ps[i]) = first(ps[j]) /\ i < j)

OrderedBy(first(_)) ==
  \A i, j \in 1..Len(task_def.parameters) :
    EmittedBefore(first, i, j)
      => StartOf(task_def.parameters[i]) < StartOf(task_def.parameters[j])

NoGivenDefault(param) == param.default = None
RequiredWithoutDefault(param) == param.required /\ param.default = None

\* C17 as stated: parameters for which no default value is given (required
\* or optional) are emitted first in their original order, parameters with
\* a given default value after them in their original order.
C17_ParametersWithoutGivenDefaultFirst == Serialized => OrderedBy(NoGivenDefault)

\* C17: required parameters without a default value are emitted first in
\* their original order; parameters with a given default value and optional
\* parameters (rendered "= None" when none is given) are emitted after
\* them in their original order.
C17_RequiredWithoutDefaultFirst == Serialized => OrderedBy(RequiredWithoutDefault)

C17_OptionalEmittedAfterRequired ==
  /\ Serialized
  /\ \E i, j \in 1..Len(task_def.parameters) :
       /\ i < j
       /\ ~task_def.parameters[i].required /\ task_def.parameters[i].default = None
       /\ RequiredWithoutDefault(task_def.parameters[j])
       /\ StartOf(task_def.parameters[j]) < StartOf(task_def.parameters[i])

\* C18: the generated parameter list holds each input parameter exactly
\* once, and no parameter rendered without "= ..." follows one rendered
\* with it.
C18_EachOnceAndDefaultsLast ==
  Serialized =>
    LET ps == task_def.parameters
    IN /\ \A i \in 1..Len(ps) : Occurrences(result, ps[i].slug \o <<":">>) = 1
       /\ Occurrences(result, <<":", " ">>) = Len(ps)
       /\ \A i, j \in 1..Len(ps) :
            (RenderedWithDefault(ps[i]) /\ StartOf(ps[i]) < StartOf(ps[j]))
              => RenderedWithDefault(ps[j])

C18_DefaultedGivenBeforeRequired ==
  /\ Serialized
  /\ \E i, j \in 1..Len(task_def.parameters) :
       /\ i < j
       /\ HasDefault(task_def.parameters[i])
       /\ ~HasDefault(task_def.parameters[j])
       /\ RenderedWithDefault(task_def.parameters[i])
       /\ ~RenderedWithDefault(task_def.parameters[j])

\* the declaration visited is located by this step
LocatesDeclaration == Visiting(FuncKinds) /\ decorator_loc' # decorator_loc

\* C20: the header Location of a located declaration starts at its def /
\* async def keyword and ends right after the closing parenthesis of its
\* parameter list, also when a trailing comma or a comment lies between the
\* last parameter and that parenthesis.
C20_HeaderEndsAfterClosingParenthesis ==
  [][LocatesDeclaration =>
       LET func == Head(todo)
           loc == func_def_loc'
       IN /\ loc.start = offset(content, func.pos.lineno - 1, func.pos.col_offset)
          /\ StartsWith(Slice(content, loc.start, loc.end),
                        HeaderOf(func.k = "AsyncFunctionDef", func.name))
          /\ loc.end = offset(content, func.rparen.lineno - 1, func.rparen.col) + 1]_vars

\* ------------------------------------------------------------------------
\* Round trip: the generated decorator and header written into a file of
\* an import line, the declaration and a body, and Parser.visit on it
\* ------------------------------------------------------------------------
\* text.split(", ")
SplitArgs(text) ==
  LET cuts == {i \in 0..(Len(text) - 2) : Slice(text, i, i + 2) = T_sep}
      n == Cardinality(cuts)
      at == [k \in 1..n |-> CHOOSE c \in cuts : Cardinality({d \in cuts : d < c}) = k - 1]
  IN IF text = <<>> THEN <<>>
     ELSE [k \in 1..(n + 1) |->
             Slice(text, IF k = 1 THEN 0 ELSE at[k - 1] + 2, IF k > n THEN Len(text) ELSE at[k])]

\* the node ast.parse builds for the text of a generated value: a call, a
\* keyword argument, a string, a negative number, a number, None, a boolean,
\* a dotted name
RECURSIVE ParseExpr(_)
ParseExpr(text) ==
  LET open == Index(text, <<"(">>)
      eq == Index(text, <<"=">>)
  IN CASE Head(text) = "\"" -> Constant("str", text)
       [] Head(text) # "\"" /\ open >= 0 ->
            LET args == SplitArgs(Slice(text, open + 1, Len(text) - 1))
            IN CallOf(Slice(text, 0, open), [i \in 1..Len(args) |-> ParseExpr(args[i])])
       [] Head(text) # "\"" /\ open < 0 /\ eq >= 0 ->
            KeywordArg(Slice(text, 0, eq), ParseExpr(Slice(text, eq + 1, Len(text))))
       [] Head(text) = "-" -> UnaryOp(ParseExpr(Tail(text)))
       [] AllDigits(text, 1, Len(text)) -> Constant("int", text)
       [] text = T_None -> Constant("none", text)
       [] text \in {<<"T", "r", "u", "e">>, <<"F", "a", "l", "s", "e">>} -> Constant("bool", text)
       [] OTHER -> Attribute(text)

\* the parameter ast.parse builds for "name: annotation[ = default]"
ParseParam(text) ==
  LET colon == Index(text, <<":", " ">>)
      eq == Index(text, <<" ", "=", " ">>)
  IN TypedParam(Slice(text, 0, colon),
                Slice(text, colon + 2, IF eq < 0 THEN Len(text) ELSE eq),
                IF eq < 0 THEN <<>> ELSE <<ParseExpr(Slice(text, eq + 3, Len(text)))>>)

\* what update() generates for a declaration under the identifier name: the
\* slug argument is dropped when the identifier is the slug
GeneratedDecorator(td, name) ==
  serialize_task_def(IF name = td.slug THEN [td EXCEPT !.slug = None] ELSE td)

GeneratedFile(td, name, async, pv, e) ==
  LET ps == SerializeEach(ParameterOrder(td.parameters), NoImports, pv, e)
  IN FileDesc(0, "none",
              <<ImportUnit(<<T_airplane>>),
                FuncUnit(name, async,
                         <<TaskDec(IF name = td.slug THEN <<>>
                                   ELSE <<SlugKw(ParseExpr(_serialize(JStr(td.slug))))>>)>>,
                         [i \in 1..Len(ps.texts) |-> ParseParam(ps.texts[i])],
                         "none", <<PassUnit>>)>>,
              FALSE)

\* the lines of the file hold exactly the generated decorator and header
HoldsGenerated(lines, td, name, async, pv, e) ==
  /\ lines[2] = GeneratedDecorator(td, name)
  /\ lines[3] = serialize_func_def(name, td.parameters, async, NoImports, pv, e).text \o <<":">>

RoundTripKinds(s) ==
  {JParam(s, "integer", TRUE, None),
   JParam(s, "integer", TRUE, <<JInt(<<"1">>)>>),
   JParam(s, "integer", TRUE, <<JInt(<<"-", "1">>)>>),
   JParam(s, "integer", FALSE, None),
   JParam(s, "shorttext", TRUE, <<JStr(<<"s">>)>>),
   JParam(s, "date", TRUE, <<JStr(V_date)>>),
   JParam(s, "datetime", TRUE, <<JStr(V_datetime2)>>),
   JParam(s, "configvar", TRUE, <<JConfig(<<"C">>)>>)}

RECURSIVE RoundTripLists(_)
RoundTripLists(n) ==
  IF n = 0 THEN {<<>>}
  ELSE {Append(ps, q) : ps \in RoundTripLists(n - 1), q \in RoundTripKinds(ParamSlug(n))}

Headers == {<<ID_a, FALSE, 9>>, <<ID_b, TRUE, 10>>}

InitGenerated(td, h, lines, tree) ==
  /\ HoldsGenerated(lines, td, h[1], h[2], h[3], ThisEnv)
  /\ command = "none"
  /\ slug = ID_a
  /\ task_def = td
  /\ py_version = h[3]
  /\ env = ThisEnv
  /\ disk = LinesText(lines)
  /\ pc = "start"
  /\ content = <<>>
  /\ root = tree
  /\ todo = <<>>
  /\ class_depth = 0
  /\ current_class = NoClass
  /\ imports = NoImports
  /\ decorator_loc = NoLoc
  /\ func_def_loc = NoLoc
  /\ func_name = None
  /\ is_async = FALSE
  /\ updates = <<>>
  /\ err = "none"
  /\ result = <<>>
  /\ stdout = "none"
  /\ exit_code = -1

InitRoundTrip ==
  \E n \in 0..MaxParams : \E ps \in RoundTripLists(n) : \E h \in Headers :
    \E fd \in {GeneratedFile(Definition(ID_a, ps), h[1], h[2], h[3], ThisEnv)} :
      InitGenerated(Definition(ID_a, ps), h, FileLines(fd), Parse(fd))

\* Parser(slug, content).visit(ast.parse(content))
NextRoundTrip == Read \/ visit_Import \/ _generic_visit_func_def

SpecRoundTrip == InitRoundTrip /\ [][NextRoundTrip]_vars

Visited == pc = "visit" /\ todo = <<>>

\* C19: the Locator run on a file made of the generated decorator and header
\* of a supported definition (date, datetime and configuration-variable
\* defaults included) locates the declaration, with the spans of the
\* generated decorator and header, and reports no computed field.
C19_GeneratedDeclarationIsLocated ==
  /\ err # "ValueError:computed"
  /\ Visited =>
       /\ decorator_loc # NoLoc
       /\ Slice(content, decorator_loc.start, decorator_loc.end)
            = GeneratedDecorator(task_def, func_name)
       /\ Slice(content, func_def_loc.start, func_def_loc.end)
            = serialize_func_def(func_name, task_def.parameters, is_async, NoImports,
                                 py_version, env).text

\* the 0-based number of the first line that is neither a leading comment
\* line nor the leading docstring (which takes one line in the files here)
FirstCodeLine ==
  FirstNonComment(Split(content), 1) + (IF root.docstring # None THEN 1 ELSE 0)

\* C21: the import-insertion point get_import_loc returns is the zero-width
\* Location at the start of the first line that is neither a comment line
\* nor part of the leading docstring, whatever the leading comment lines and
\* docstring are.
C21_ImportPointAtFirstCodeLine ==
  (command # "none" /\ pc \in {"returned", "raised"} /\ decorator_loc # NoLoc) =>
    /\ err \notin {"IndexError", "ValueError:index"}
    /\ updates # <<>> =>
         updates[3].loc = Location(offset(content, FirstCodeLine, 0),
                                   offset(content, FirstCodeLine, 0))

\* ------------------------------------------------------------------------
\* Location.from_node on its own: texts of one or two lines over characters
\* of one to four encoded bytes, nodes as ast reports them (1-based lines,
\* columns in encoded bytes, a non-empty span)
\* ------------------------------------------------------------------------
WideChars == {"a", "U2", "U3", "U4"}
WideLines == {<<>>} \cup SeqsUpTo(WideChars, MaxLineLen)
WideTexts == {<<l>> : l \in WideLines} \cup {<<l, m>> : l \in WideLines, m \in WideLines}

\* the node from character sk of line sl to character ek of line el
NodeAt(lines, sl, sk, el, ek) ==
  Pos(sl, Bytes(SubSeq(lines[sl], 1, sk)), el, Bytes(SubSeq(lines[el], 1, ek)))

InitLocation ==
  /\ command = "none"
  /\ slug = None
  /\ task_def = Definition(None, <<>>)
  /\ py_version = 0
  /\ env = ThisEnv
  /\ disk = <<>>
  /\ pc = "from_node"
  /\ \E lines \in WideTexts :
       /\ content = Join(lines, <<NL>>)
       /\ \E sl \in 1..Len(lines), el \in 1..Len(lines) :
            \E sk \in 0..Len(lines[sl]), ek \in 1..Len(lines[el]) :
              /\ sl < el \/ (sl = el /\ sk < ek)
              /\ root = [k |-> "Node", pos |-> NodeAt(lines, sl, sk, el, ek)]
  /\ todo = <<>>
  /\ class_depth = 0
  /\ current_class = NoClass
  /\ imports = NoImports
  /\ decorator_loc = NoLoc
  /\ func_def_loc = NoLoc
  /\ func_name = None
  /\ is_async = FALSE
  /\ updates = <<>>
  /\ err = "none"
  /\ result = <<>>
  /\ stdout = "none"
  /\ exit_code = -1

\* one call Location.from_node(node, content)
FromNode ==
  /\ pc = "from_node"
  /\ decorator_loc' = from_node(root.pos, content)
  /\ pc' = "returned"
  /\ UNCHANGED <<argv, disk, content, root, todo, class_depth, current_class, imports,
                 func_def_loc, func_name, is_async, updates, err, result, stdout,
                 exit_code>>

NextLocation == FromNode

SpecLocation == InitLocation /\ [][NextLocation]_vars

\* the characters of the line that take up its first col encoded bytes
CharsBefore(line, col) == CHOOSE k \in 0..Len(line) : Bytes(SubSeq(line, 1, k)) = col

\* the position in the whole text of byte column col of line lineno (1-based):
\* everything before the line, line terminators included, and the
\* characters before the column
CharOffset(text, lineno, col) ==
  LET lines == Split(text)
  IN Len(Concat([i \in 1..(lineno - 1) |-> lines[i] \o <<NL>>]))
       + CharsBefore(lines[lineno], col)

Located == pc = "returned" /\ root.k = "Node"

\* C22: from_node returns the character offsets of the node's start and end
\* in the whole text: the characters of all preceding lines plus one per line
\* terminator, plus the characters before the byte column on its own line.
C22_FromNodeGivesCharacterOffsets ==
  Located =>
    decorator_loc = Location(CharOffset(content, root.pos.lineno, root.pos.col_offset),
                             CharOffset(content, root.pos.end_lineno,
                                        root.pos.end_col_offset))

\* a node on the second line that starts and ends behind characters of two,
\* three and four bytes, so that its byte columns differ from its offsets
C22_NodeBehindWideCharacters ==
  /\ Located
  /\ root.pos.lineno = 2
  /\ {"U2", "U3", "U4"} \subseteq {content[i] : i \in 1..Len(content)}
  /\ decorator_loc.start > 0
  /\ decorator_loc.end - decorator_loc.start < root.pos.end_col_offset - root.pos.col_offset

\* the interpreters and settings of the testing switch a run may meet
Environments == {ThisEnv, Env(9, FALSE), Env(11, TRUE)}

\* what update would return for the arguments of this run in environment e
OutcomeIn(e) == update(content, root, slug, task_def, py_version, e, ParserFields)

\* C23: the output of update is determined by the file content, the slug, the
\* definition and the version string: in any other environment (interpreter
\* version, testing switch) the same arguments give the same text.
C23_OutputIndependentOfEnvironment ==
  (command = "update" /\ pc = "returned") =>
    \A e \in Environments : OutcomeIn(e).err = "none" /\ OutcomeIn(e).text = result

\* ------------------------------------------------------------------------
\* Two update invocations on one file.  Each reads the whole file, computes
\* its new text, then writes the whole file; the steps of the two interleave.
\* pc, content, task_def, result, err and exit_code hold one value per
\* invocation.
\* ------------------------------------------------------------------------
Invocations == {1, 2}

\* the definitions the invocations pass: with or without a parameter, with
\* or without a new slug
SharedDefinitions ==
  {Definition(s, ps) :
     s \in {ID_a, ID_c},
     ps \in {<<>>, <<JParam(ID_x, "integer", TRUE, None)>>,
             <<JParam(ID_x, "integer", FALSE, None)>>}}

ImportLines == {<<ImportUnit(<<T_airplane>>)>>,
                <<FromUnit(T_typing, <<T_Optional>>), ImportUnit(<<T_airplane>>)>>}

\* the file a definition generates, behind the given import lines
SharedFile(td, head) ==
  FileDesc(0, "none", head \o <<GeneratedFile(td, td.slug, FALSE, 9, ThisEnv).units[2]>>,
           FALSE)

\* the files the two invocations can read: closed under their updates
SharedFiles == {SharedFile(td, head) : td \in SharedDefinitions, head \in ImportLines}

\* ast.parse(text) for the text of one of these files
ParseText(text) == Parse(CHOOSE fd \in SharedFiles : FileText(fd) = text)

NoFields ==
  [decorator_loc |-> NoLoc, func_def_loc |-> NoLoc, func_name |-> None,
   is_async |-> FALSE, imports |-> NoImports, err |-> "none"]

\* Parser: one visit_* call on the head of todo (module-level statements)
VisitNode(nodes, p, text, target) ==
  LET node == Head(nodes)
      dec == _get_airplane_decorator(node)
  IN CASE node.k = "Import" ->
            [p |-> [p EXCEPT !.imports = Imports_add(p.imports, node.names[1], None)],
             todo |-> Tail(nodes)]
       [] node.k = "ImportFrom" ->
            [p |-> IF node.module = None THEN [p EXCEPT !.err = "AssertionError"]
                   ELSE [p EXCEPT !.imports =
                                    Imports_add(p.imports, node.module, node.names[1])],
             todo |-> Tail(nodes)]
       [] node.k \in {"FunctionDef", "AsyncFunctionDef"} ->
            IF dec = <<>> \/ ~_slug_matches(node, dec[1], target)
            THEN [p |-> [p EXCEPT !.func_name = node.name,
                                  !.func_def_loc = FuncDefLoc(node, text)],
                  todo |-> node.body \o Tail(nodes)]
            ELSE IF _has_computed_fields(dec[1], node.defaults)
            THEN [p |-> [p EXCEPT !.err = "ValueError:computed"], todo |-> Tail(nodes)]
            ELSE [p |-> [p EXCEPT !.func_name = node.name,
                                  !.func_def_loc = FuncDefLoc(node, text),
                                  !.decorator_loc = DecoratorLoc(dec[1], text),
                                  !.is_async = (node.k = "AsyncFunctionDef")],
                  todo |-> Tail(nodes)]
       [] OTHER -> [p |-> p, todo |-> Tail(nodes)]

\* Parser(slug, content).visit(root)
RECURSIVE Visit(_, _, _, _)
Visit(nodes, p, text, target) ==
  IF nodes = <<>> \/ p.err # "none" THEN p
  ELSE CHOOSE r \in {Visit(v.todo, v.p, text, target) :
                     v \in {VisitNode(nodes, p, text, target)}} : TRUE

\* update() on the text an invocation read, with its definition
UpdateOf(text, tree, p, td) ==
  IF p.err # "none" THEN [err |-> p.err, text |-> <<>>, updates |-> <<>>]
  ELSE update(text, tree, ID_a, td, 9, ThisEnv, p)

\* one invocation's computation: ast.parse, the Parser's visit, update
Computed(text, tree, td) == UpdateOf(text, tree, Visit(tree.body, NoFields, text, ID_a), td)

Outcome(text, td) == Computed(text, ParseText(text), td)

InitShared ==
  /\ command = "update"
  /\ slug = ID_a
  /\ task_def \in [Invocations -> SharedDefinitions]
  /\ py_version = 9
  /\ env = ThisEnv
  /\ \E fd \in SharedFiles : fd.units[Len(fd.units)].name = ID_a /\ disk = FileText(fd)
  /\ pc = [i \in Invocations |-> "start"]
  /\ content = [i \in Invocations |-> <<>>]
  /\ root = [k |-> "Module", broken |-> FALSE, docstring |-> None, body |-> <<>>]
  /\ todo = <<>>
  /\ class_depth = 0
  /\ current_class = NoClass
  /\ imports = NoImports
  /\ decorator_loc = NoLoc
  /\ func_def_loc = NoLoc
  /\ func_name = None
  /\ is_async = FALSE
  /\ updates = <<>>
  /\ err = [i \in Invocations |-> "none"]
  /\ result = [i \in Invocations |-> <<>>]
  /\ stdout = "none"
  /\ exit_code = [i \in Invocations |-> -1]

\* update(): open(file).read()
ReadsFile(i) ==
  /\ pc[i] = "start"
  /\ content' = [content EXCEPT ![i] = disk]
  /\ pc' = [pc EXCEPT ![i] = "read"]
  /\ UNCHANGED <<argv, disk, root, todo, class_depth, parser, updates, err, result, stdout,
                 exit_code>>

\* the invocation ends its computation with r
Ends(i, r) ==
  IF r.err # "none"
  THEN /\ err' = [err EXCEPT ![i] = r.err]
       /\ pc' = [pc EXCEPT ![i] = "raised"]
       /\ UNCHANGED result
  ELSE /\ result' = [result EXCEPT ![i] = r.text]
       /\ pc' = [pc EXCEPT ![i] = "returned"]
       /\ UNCHANGED err

\* a variant that computes from the file as it is now, not as it was read
ComputesFromDisk(i) ==
  /\ pc[i] = "read"
  /\ Ends(i, Outcome(disk, task_def[i]))
  /\ UNCHANGED <<argv, disk, content, root, todo, class_depth, parser, updates, stdout,
                 exit_code>>

\* update(): the rest of the function, on the content read
Computes(i) ==
  /\ pc[i] = "read"
  /\ Ends(i, Outcome(content[i], task_def[i]))
  /\ UNCHANGED <<argv, disk, content, root, todo, class_depth, parser, updates, stdout,
                 exit_code>>

\* main(): open(file, "w").write(contents)
WritesFile(i) ==
  /\ pc[i] = "returned"
  /\ disk' = result[i]
  /\ pc' = [pc EXCEPT ![i] = "exit"]
  /\ exit_code' = [exit_code EXCEPT ![i] = 0]
  /\ UNCHANGED <<argv, content, root, todo, class_depth, parser, updates, err, result,
                 stdout>>

\* the exception ends the invocation without a write
Fails(i) ==
  /\ pc[i] = "raised"
  /\ pc' = [pc EXCEPT ![i] = "exit"]
  /\ exit_code' = [exit_code EXCEPT ![i] = 1]
  /\ UNCHANGED <<argv, disk, content, root, todo, class_depth, parser, updates, err,
                 result, stdout>>

NextShared ==
  \E i \in Invocations : ReadsFile(i) \/ Computes(i) \/ WritesFile(i) \/ Fails(i)

SpecShared == InitShared /\ [][NextShared]_vars

WritesNow(i) == pc[i] = "returned" /\ pc'[i] = "exit"

\* C24: whenever an invocation writes, the file becomes exactly the output
\* computed from its own definition and the content it read, whatever the
\* other invocation wrote in between; nothing else changes the file, so the
\* final content is that of the invocation that wrote last.
C24_LastWriterWins ==
  [][/\ \A i \in Invocations :
          WritesNow(i) => disk' = Outcome(content[i], task_def[i]).text
     /\ (\A i \in Invocations : ~WritesNow(i)) => disk' = disk]_vars

\* both invocations read the same content and both wrote; the file is the
\* output of invocation 2, and what invocation 1 had written in between is
\* lost: run on the text invocation 1 wrote, invocation 2 would have
\* returned another text
C24_OtherWriteLost ==
  /\ \A i \in Invocations : pc[i] = "exit" /\ exit_code[i] = 0
  /\ content[1] = content[2]
  /\ result[1] # result[2]
  /\ disk = result[2]
  /\ Outcome(result[1], task_def[2]).err = "none"
  /\ disk # Outcome(result[1], task_def[2]).text

\* the declaration names the target slug: by a literal slug argument, or by
\* its identifier when the decorator has no slug argument
NamesTarget(node) ==
  /\ IsFunc(node)
  /\ _get_airplane_decorator(node) # <<>>
  /\ LET ks == SlugKeywords(_get_airplane_decorator(node)[1])
     IN IF ks = <<>> THEN node.name = slug
        ELSE ks[1].value.t = "Constant" /\ ks[1].value.ty = "str"
               /\ StrValue(ks[1].value) = slug

\* the values of the declaration's decorator arguments and defaults
FieldValues(node) ==
  {node.defaults[i].value : i \in 1..Len(node.defaults)}
    \cup UNION {{node.decorator_list[d].keywords[i].value :
                   i \in 1..Len(node.decorator_list[d].keywords)} :
                d \in 1..Len(node.decorator_list)}

IsComputed(e) == ContainsComputed(e) \/ e.t = "Name"

TopLevel == {root.body[i] : i \in 1..Len(root.body)}

\* exactly one declaration of the file names the target, it stands at the top
\* level and holds literals only; other top-level declarations hold computed
\* values
LiteralTargetAmongComputed ==
  /\ Cardinality({f \in AllFunctions(root.body) : NamesTarget(f)}) = 1
  /\ \E m \in TopLevel : NamesTarget(m) /\ \A e \in FieldValues(m) : LiteralOnly(e)
  /\ \E f \in TopLevel : IsFunc(f) /\ ~NamesTarget(f) /\ \E e \in FieldValues(f) : IsComputed(e)

TheTarget == CHOOSE m \in TopLevel : NamesTarget(m)

\* C25: in a file with one literal-only declaration that matches the target
\* slug, computed decorator arguments or defaults of the declarations that do
\* not match, before or after it, never raise manual-update-required, and
\* the traversal ends with the matching declaration's decorator located.
C25_ComputedNonMatchesIgnored ==
  (command # "none" /\ ~root.broken /\ LiteralTargetAmongComputed) =>
    /\ err # "ValueError:computed"
    /\ (pc = "visit" /\ todo = <<>>) =>
         decorator_loc = DecoratorLoc(_get_airplane_decorator(TheTarget)[1], content)

\* the traversal has ended on a file with computed declarations before and
\* after the matching one
C25_MatchLocatedBetweenComputed ==
  /\ command = "can_update" /\ pc = "visit" /\ todo = <<>>
  /\ LiteralTargetAmongComputed
  /\ \E i, j, k \in 1..Len(root.body) :
       /\ i < j /\ j < k
       /\ NamesTarget(root.body[j])
       /\ \E e \in FieldValues(root.body[i]) : IsComputed(e)
       /\ \E e \in FieldValues(root.body[k]) : IsComputed(e)
  /\ decorator_loc # NoLoc

EndsWith(text, suffix) ==
  Len(text) >= Len(suffix) /\ SubSeq(text, Len(text) - Len(suffix) + 1, Len(text)) = suffix

\* C26: an optional parameter without an explicit default, of any type of the
\* enumeration (the configuration-variable type included), is serialized
\* without error and with the default None.
C26_OptionalWithoutDefaultGetsNone ==
  (command = "none" /\ pc \in {"returned", "raised"}
     /\ task_def.parameters \in OptionalOfEveryType) =>
    /\ err = "none"
    /\ EndsWith(result, <<" ", "=", " ">> \o T_None \o <<")">>)

\* the lists that hold the same patches in another order
Reorderings(patches) ==
  {[i \in 1..Len(patches) |-> patches[f[i]]] : f \in Permutations(1..Len(patches))}

\* C27: the outcome of apply_updates, the text or the overlap failure, is the
\* same for every order in which the same patches are listed, a zero-width
\* insertion at the start offset of another patch included.
C27_OutcomeIndependentOfOrder ==
  (pc \in {"returned", "raised"} /\ command = "none" /\ Len(updates) > 1) =>
    \A other \in Reorderings(updates) :
      /\ apply_updates(content, other).err = err
      /\ apply_updates(content, other).text = result

\* ------------------------------------------------------------------------
\* The literal serializer on its own: string values over an alphabet with
\* the double quote, the backslash and the line break
\* ------------------------------------------------------------------------
LiteralChars == {"a", "n", "\"", "\\", NL}
StringValues == {<<>>} \cup SeqsUpTo(LiteralChars, MaxTextLen)

InitLiteral ==
  /\ command = "none"
  /\ slug = None
  /\ task_def = Definition(None, <<>>)
  /\ py_version = 0
  /\ env = ThisEnv
  /\ disk = <<>>
  /\ pc = "_serialize"
  /\ content = <<>>
  /\ \E s \in StringValues : root = [k |-> "Value", value |-> JStr(s)]
  /\ todo = <<>>
  /\ class_depth = 0
  /\ current_class = NoClass
  /\ imports = NoImports
  /\ decorator_loc = NoLoc
  /\ func_def_loc = NoLoc
  /\ func_name = None
  /\ is_async = FALSE
  /\ updates = <<>>
  /\ err = "none"
  /\ result = <<>>
  /\ stdout = "none"
  /\ exit_code = -1

\* one call Serializer._serialize(value)
SerializeValue ==
  /\ pc = "_serialize"
  /\ result' = _serialize(root.value)
  /\ pc' = "returned"
  /\ UNCHANGED <<argv, disk, content, root, todo, class_depth, parser, updates, err, stdout,
                 exit_code>>

NextLiteral == SerializeValue

SpecLiteral == InitLiteral /\ [][NextLiteral]_vars

\* the character an escape sequence of a Python string literal denotes
\* (a backslash before a line break continues the line and denotes nothing)
Escaped(c) ==
  CASE c = "n" -> <<NL>>
    [] c = "a" -> <<"BEL">>
    [] c = NL -> <<>>
    [] OTHER -> <<c>>

\* the string denoted by the source text from position i, inside a literal
\* opened by a double quote: a SyntaxError when a line break or the end of
\* the text comes before the closing quote, or when text follows it
RECURSIVE ReadString(_, _)
ReadString(text, i) ==
  IF i > Len(text) THEN [err |-> "SyntaxError", value |-> <<>>]
  ELSE IF text[i] = "\"" THEN [err |-> IF i = Len(text) THEN "none" ELSE "SyntaxError",
                               value |-> <<>>]
  ELSE IF text[i] = NL THEN [err |-> "SyntaxError", value |-> <<>>]
  ELSE IF text[i] = "\\"
  THEN IF i = Len(text) THEN [err |-> "SyntaxError", value |-> <<>>]
       ELSE [err |-> ReadString(text, i + 2).err,
             value |-> Escaped(text[i + 1]) \o ReadString(text, i + 2).value]
  ELSE [err |-> ReadString(text, i + 1).err,
        value |-> <<text[i]>> \o ReadString(text, i + 1).value]

\* the value the text denotes when read as a string literal
ReadLiteral(text) ==
  IF text = <<>> \/ Head(text) # "\"" THEN [err |-> "SyntaxError", value |-> <<>>]
  ELSE ReadString(text, 2)

\* C28: the literal _serialize produces for a string value denotes exactly
\* that string when it is read back as source text, for values holding double
\* quotes, backslashes and line breaks.
C28_StringLiteralDenotesValue ==
  (pc = "returned" /\ root.k = "Value") =>
    ReadLiteral(result) = [err |-> "none", value |-> root.value.txt]

\* ------------------------------------------------------------------------
\* serialize_task_def on a definition with schedules, called twice on the
\* same definition value.  task_def is the caller's dict: the call's writes
\* into the dicts nested in it are writes to task_def.
\* ------------------------------------------------------------------------
\* schedule[key]: paramValues is absent, a dict of bindings, or the
\* SerializedValue the serializer left in its place
NoValues == [kind |-> "absent", items |-> <<>>, value |-> <<>>]
Bindings(items) == [kind |-> "dict", items |-> items, value |-> <<>>]
SerializedValue(text) == [kind |-> "SerializedValue", items |-> <<>>, value |-> text]
Binding(s, v) == [slug |-> s, value |-> v]
Schedule(s, cron, values) == [slug |-> s, cron |-> cron, paramValues |-> values]

\* next((p for p in params if p.get("slug") == slug), None), then its type
ParamType(params, s) ==
  LET hits == SelectSeq(params, LAMBDA q : q.slug = s)
  IN IF hits = <<>> THEN "none" ELSE hits[1].type

BindingValue(item, params) ==
  _serialize_param_value(item.value, ParamType(params, item.slug), NoImports)

BindingsText(items, rs) ==
  <<"{">> \o Join([i \in 1..Len(items) |->
                     _serialize(JStr(items[i].slug)) \o <<":", " ">> \o rs[i].text], T_sep)
          \o <<"}">>

\* values.items() needs a dict
_serialize_param_values(values, params) ==
  IF values.kind # "dict" THEN [err |-> "AttributeError", text |-> <<>>]
  ELSE CHOOSE r \in
         {IF \E i \in 1..Len(rs) : rs[i].err # "none"
          THEN [err |-> rs[MinOf({i \in 1..Len(rs) : rs[i].err # "none"})].err, text |-> <<>>]
          ELSE [err |-> "none", text |-> BindingsText(values.items, rs)]
            : rs \in {[i \in 1..Len(values.items) |-> BindingValue(values.items[i], params)]}}
         : TRUE

T_Schedule == T_airplane \o <<".", "S", "c", "h", "e", "d", "u", "l", "e">>

ScheduleText(schedule, values) ==
  T_Schedule \o <<"(">> \o T_slug \o <<"=">> \o _serialize(JStr(schedule.slug)) \o T_sep
    \o <<"c", "r", "o", "n", "=">> \o _serialize(JStr(schedule.cron))
    \o (IF values = <<>> THEN <<>>
        ELSE T_sep \o <<"p", "a", "r", "a", "m", "_", "v", "a", "l", "u", "e", "s", "=">>
               \o values[1])
    \o <<")">>

\* the schedule's text, and the schedule dict as the call leaves it
Scheduled(schedule, pv) ==
  IF pv.err # "none" THEN [err |-> pv.err, text |-> <<>>, schedule |-> schedule]
  ELSE [err |-> "none", text |-> ScheduleText(schedule, <<pv.text>>),
        schedule |-> [schedule EXCEPT !.paramValues = SerializedValue(pv.text)]]

_serialize_schedule(schedule, params) ==
  IF schedule.paramValues.kind = "absent"
  THEN [err |-> "none", text |-> ScheduleText(schedule, <<>>), schedule |-> schedule]
  ELSE Scheduled(schedule, _serialize_param_values(schedule.paramValues, params))

\* the schedules in order, up to the first that raises
Schedules(schedules, rs) ==
  LET bad == {i \in 1..Len(rs) : rs[i].err # "none"}
  IN [err |-> IF bad = {} THEN "none" ELSE rs[MinOf(bad)].err,
      texts |-> [i \in 1..Len(rs) |-> rs[i].text],
      schedules |-> [i \in 1..Len(rs) |->
                       IF bad = {} \/ i < MinOf(bad) THEN rs[i].schedule ELSE schedules[i]]]

TaskText(td, s) ==
  <<"@">> \o T_airplane \o <<".">> \o T_task \o <<"(">>
    \o Join((IF td.slug = None THEN <<>>
             ELSE <<T_slug \o <<"=">> \o _serialize(JStr(td.slug))>>)
            \o (IF td.schedules = <<>> THEN <<>>
                ELSE <<<<"s", "c", "h", "e", "d", "u", "l", "e", "s", "=", "[">>
                         \o Join(s.texts, T_sep) \o <<"]">>>>),
            T_sep)
    \o <<")">>

Serialized_task_def(td, s) ==
  [err |-> s.err,
   text |-> IF s.err # "none" THEN <<>> ELSE TaskText(td, s),
   task_def |-> [td EXCEPT !.schedules = s.schedules]]

\* serialize_task_def for a definition with schedules: the text (as black
\* leaves it on one line), and the caller's definition after the call
serialize_scheduled_task_def(td) ==
  Serialized_task_def(td,
    Schedules(td.schedules,
              [i \in 1..Len(td.schedules) |->
                 _serialize_schedule(td.schedules[i], td.parameters)]))

ScheduleKinds(s) ==
  {Schedule(s, <<"c">>, NoValues),
   Schedule(s, <<"c">>, Bindings(<<Binding(ID_x, JInt(<<"1">>))>>)),
   Schedule(s, <<"c">>, Bindings(<<Binding(ID_x, JStr(V_date))>>))}

RECURSIVE ScheduleLists(_)
ScheduleLists(n) ==
  IF n = 0 THEN {<<>>}
  ELSE {Append(ss, q) : ss \in ScheduleLists(n - 1), q \in ScheduleKinds(ParamSlug(n))}

ScheduledDefinitions ==
  {[slug |-> s, parameters |-> ps, schedules |-> ss] :
     s \in {None, ID_a},
     ps \in {<<>>, <<JParam(ID_x, "integer", TRUE, None)>>,
             <<JParam(ID_x, "date", TRUE, None)>>},
     ss \in UNION {ScheduleLists(n) : n \in 0..MaxSchedules}}

InitSchedules ==
  /\ command = "none"
  /\ slug = None
  /\ task_def \in ScheduledDefinitions
  /\ py_version = 9
  /\ env = ThisEnv
  /\ disk = <<>>
  /\ pc = "first"
  /\ content = <<>>
  /\ root = [k |-> "Module", broken |-> FALSE, docstring |-> None, body |-> <<>>]
  /\ todo = <<>>
  /\ class_depth = 0
  /\ current_class = NoClass
  /\ imports = NoImports
  /\ decorator_loc = NoLoc
  /\ func_def_loc = NoLoc
  /\ func_name = None
  /\ is_async = FALSE
  /\ updates = <<>>
  /\ err = "none"
  /\ result = <<>>
  /\ stdout = "none"
  /\ exit_code = -1

\* the call leaves r.task_def behind and raises r.err or returns r.text
Leaves(r) ==
  /\ task_def' = r.task_def
  /\ IF r.err # "none" THEN Raise(r.err) /\ UNCHANGED result
     ELSE /\ result' = r.text
          /\ pc' = IF pc = "first" THEN "second" ELSE "returned"
          /\ UNCHANGED err

\* Serializer(py_version).serialize_task_def(task_def), a first and a second time
SerializeTaskDef ==
  /\ pc \in {"first", "second"}
  /\ Leaves(serialize_scheduled_task_def(task_def))
  /\ UNCHANGED <<command, slug, py_version, env, disk, content, root, todo, class_depth,
                 parser, updates, stdout, exit_code>>

NextSchedules == SerializeTaskDef

SpecSchedules == InitSchedules /\ [][NextSchedules]_vars

\* C29: serialize_task_def leaves the caller's definition as it was, nested
\* schedules and their parameter-value bindings included, and a second
\* serialization of the same definition value returns the same text.
C29_DefinitionUnchangedAndTextRepeats ==
  [][(pc \in {"first", "second"}) =>
       (/\ task_def' = task_def
        /\ (pc = "second" => (err' = "none" /\ result' = result)))]_vars

\* C30: the can_update command never writes the target file: through the
\* whole run, whether it reports true or false, the file content stays what
\* it was.
C30_CanUpdateLeavesFile ==
  [][command = "can_update" => disk' = disk]_vars

\* can_update has reported true for a file that update would have changed
C30_ReportedTrueWithoutWriting ==
  /\ command = "can_update" /\ pc = "exit" /\ stdout = "true"
  /\ result # <<>> /\ result # disk

====
